---- MODULE Spec2Model ----
(***************************************************************************)
(* A model of the ETL core of CRAutosScrape: the Data Cleaner              *)
(* (etl/transformers/data_cleaner.py) and the Data Validator               *)
(* (etl/transformers/data_validator.py), applied to batches of raw         *)
(* vehicle records in the order of VehicleETLPipeline.run_full_pipeline.   *)
(*                                                                         *)
(* A batch (a pandas DataFrame) is a record [cols, rows]: the set of its   *)
(* column names and the sequence of its rows.  A cell is NULL (None/NaN)   *)
(* or Some(v).  A text is a sequence of one-character strings, so that     *)
(* lower(), strip(), title() and replace() are computed character by       *)
(* character as Python computes them.  A float64 result of a division is   *)
(* a record [kind, num, den]: an exact fraction, +inf, -inf or NaN.        *)
(*                                                                         *)
(* Four further specifications share the module: SpecETL runs full and     *)
(* incremental ETL runs over the raw store (DatabaseManager) and the clean *)
(* store (CleanDataLoader), each ended by the command that made it;        *)
(* SpecScrape is one run of CrautosScraper.scrape over a small site;       *)
(* SpecLinks is the listing traversal alone, also over a site with more    *)
(* pages than the traversal's ceiling; SpecParse is one call of a field    *)
(* extractor of VehicleParser on a text.                                   *)
(***************************************************************************)
EXTENDS Integers, Sequences, FiniteSets, TLC

VARIABLES raw, current_year, pc, raw_report, clean, clean_report, reclean

\* The two stores and one run of the ETL orchestrator over them.
VARIABLES raw_store, insert_result, clean_store, mode, stage, raw_data,
          validation_report, cleaned, clean_validation, stages_run,
          store_before, reraised

\* What the ETL command that made the last run reported when it ended.
VARIABLES exit_report

\* One run of CrautosScraper.scrape against a site.
VARIABLES site, scrape_pc, page, all_links, requests, requested, response,
          vehicle_links, processed, fetched, saved, vehicles_scraped, errors,
          summary

\* The pace of the scrape run: the last thing it did (a request or a delay),
\* the seconds it has slept, the requests it issued right after another
\* request, and the files save_raw_data has written.
VARIABLES last_event, clock, back_to_back, files

\* One call of a field extractor of VehicleParser: its argument and what the
\* call gave.
VARIABLES parse_text, parse_result

clean_vars == <<raw, current_year, pc, raw_report, clean, clean_report, reclean>>

etl_vars == <<raw_store, insert_result, clean_store, mode, stage, raw_data,
              validation_report, cleaned, clean_validation, stages_run,
              store_before, reraised, exit_report>>

pace_vars == <<last_event, clock, back_to_back, files>>

scrape_vars == <<site, scrape_pc, page, all_links, requests, requested, response,
                 vehicle_links, processed, fetched, saved, vehicles_scraped, errors,
                 summary, pace_vars>>

parse_vars == <<parse_text, parse_result>>

vars == <<clean_vars, etl_vars, scrape_vars, parse_vars>>

(***************************************************************************)
(* Cells                                                                   *)
(***************************************************************************)
NULL == <<>>

Some(v) == <<v>>

IsNull(c) == c = NULL

Val(c) == c[1]

(***************************************************************************)
(* Characters and the Python str methods the cleaner calls                 *)
(***************************************************************************)
LowerChars == <<"a","b","c","d","e","f","g","h","i","j","k","l","m","n","o","p","q",
                "r","s","t","u","v","w","x","y","z","i_acute","e_acute">>

UpperChars == <<"A","B","C","D","E","F","G","H","I","J","K","L","M","N","O","P","Q",
                "R","S","T","U","V","W","X","Y","Z","I_ACUTE","E_ACUTE">>

Digits == {"0","1","2","3","4","5","6","7","8","9"}

Whitespace == {" "}

IndexIn(c, chars) == CHOOSE i \in 1..Len(chars) : chars[i] = c

IsLowerChar(c) == \E i \in 1..Len(LowerChars) : LowerChars[i] = c

IsUpperChar(c) == \E i \in 1..Len(UpperChars) : UpperChars[i] = c

IsCased(c) == IsLowerChar(c) \/ IsUpperChar(c)

lower_char(c) == IF IsUpperChar(c) THEN LowerChars[IndexIn(c, UpperChars)] ELSE c

upper_char(c) == IF IsLowerChar(c) THEN UpperChars[IndexIn(c, LowerChars)] ELSE c

\* str.lower()
lower(s) == [i \in 1..Len(s) |-> lower_char(s[i])]

\* str.upper()
upper(s) == [i \in 1..Len(s) |-> upper_char(s[i])]

\* str.title(): a cased character is upper-cased when the character before it
\* is not cased (or there is none), lower-cased otherwise.
title(s) ==
    [i \in 1..Len(s) |->
        IF i = 1 \/ ~IsCased(s[i - 1]) THEN upper_char(s[i]) ELSE lower_char(s[i])]

\* str.strip(): drop leading and trailing whitespace.
strip(s) ==
    LET keep == {i \in 1..Len(s) : s[i] \notin Whitespace}
    IN  IF keep = {} THEN <<>>
        ELSE LET lo == CHOOSE i \in keep : \A j \in keep : i <= j
                 hi == CHOOSE i \in keep : \A j \in keep : j <= i
             IN  SubSeq(s, lo, hi)

StartsWith(s, old) == Len(old) <= Len(s) /\ SubSeq(s, 1, Len(old)) = old

\* str.replace(old, new): every non-overlapping occurrence, left to right.
RECURSIVE str_replace(_, _, _)
str_replace(s, old, new) ==
    IF s = <<>> THEN <<>>
    ELSE IF StartsWith(s, old)
         THEN new \o str_replace(SubSeq(s, Len(old) + 1, Len(s)), old, new)
         ELSE <<s[1]>> \o str_replace(Tail(s), old, new)

\* re.sub(r'[^\d-]', '', s): keep the digits and the hyphens.
keep_digits_and_hyphens(s) == SelectSeq(s, LAMBDA c : c \in Digits \/ c = "-")

(***************************************************************************)
(* float64 results of a division, and comparisons with NaN semantics       *)
(***************************************************************************)
Inf == [kind |-> "inf", num |-> 0, den |-> 1]

NegInf == [kind |-> "ninf", num |-> 0, den |-> 1]

Fin(a, b) == [kind |-> "fin", num |-> a, den |-> b]

\* Series / Series on int cells: NaN (NULL) when an operand is null or for 0/0,
\* +-inf for a division by zero, the quotient (denominator kept positive) else.
Div(a, b) ==
    IF IsNull(a) \/ IsNull(b) THEN NULL
    ELSE IF Val(b) = 0
         THEN IF Val(a) > 0 THEN Some(Inf)
              ELSE IF Val(a) < 0 THEN Some(NegInf) ELSE NULL
         ELSE IF Val(b) > 0 THEN Some(Fin(Val(a), Val(b)))
              ELSE Some(Fin(0 - Val(a), 0 - Val(b)))

\* int cell < n, int cell > n: False on a null cell.
IntLt(c, n) == ~IsNull(c) /\ Val(c) < n

IntGt(c, n) == ~IsNull(c) /\ Val(c) > n

IntEq(c, n) == ~IsNull(c) /\ Val(c) = n

\* float cell < n, float cell > n: False on NaN.
FloatLt(c, n) ==
    /\ ~IsNull(c)
    /\ \/ Val(c).kind = "ninf"
       \/ Val(c).kind = "fin" /\ Val(c).num < n * Val(c).den

FloatGt(c, n) ==
    /\ ~IsNull(c)
    /\ \/ Val(c).kind = "inf"
       \/ Val(c).kind = "fin" /\ Val(c).num > n * Val(c).den

(***************************************************************************)
(* DataFrames                                                              *)
(***************************************************************************)
\* The columns of the raw vehicles table (SELECT * FROM vehicles).
RawColumns ==
    {"id", "url", "vehicle_id", "brand", "model", "year", "price_colones",
     "price_usd", "mileage", "fuel_type", "transmission", "engine_cc", "doors",
     "style", "color_exterior", "color_interior", "location", "province",
     "seller_phone", "seller_whatsapp", "description", "features", "images",
     "scraped_at", "updated_at"}

\* The columns whose cells the cleaner or the validator read or write; a row
\* carries one cell for each (NULL while the column is absent).
CellColumns ==
    {"url", "vehicle_id", "brand", "model", "year", "price_colones", "price_usd",
     "mileage", "fuel_type", "transmission", "engine_cc", "color_exterior",
     "color_interior", "seller_phone", "exchange_rate", "price_flag",
     "vehicle_age", "price_per_year", "is_luxury"}

HasCol(df, col) == col \in df.cols

\* df[col] = cells, creating the column when it is new.
SetCol(df, col, cells) ==
    [cols |-> df.cols \cup {col},
     rows |-> [i \in 1..Len(df.rows) |-> [df.rows[i] EXCEPT ![col] = cells[i]]]]

RowIndex(df) == 1..Len(df.rows)

\* Series.str.lower / strip / title / upper: null cells stay null.
str_lower(c) == IF IsNull(c) THEN NULL ELSE Some(lower(Val(c)))

str_strip(c) == IF IsNull(c) THEN NULL ELSE Some(strip(Val(c)))

str_title(c) == IF IsNull(c) THEN NULL ELSE Some(title(Val(c)))

str_upper(c) == IF IsNull(c) THEN NULL ELSE Some(upper(Val(c)))

\* Series.replace(old, None) for one scalar.
ReplaceValue(c, old) == IF ~IsNull(c) /\ Val(c) = old THEN NULL ELSE c

\* Series.replace(dict): a cell equal to a key becomes the key's value.
ReplaceByMap(c, mapping) ==
    IF ~IsNull(c) /\ \E k \in 1..Len(mapping) : mapping[k][1] = Val(c)
    THEN Some(mapping[CHOOSE k \in 1..Len(mapping) : mapping[k][1] = Val(c)][2])
    ELSE c

(***************************************************************************)
(* DataCleaner                                                             *)
(***************************************************************************)
\* DataCleaner.__init__: self.brand_mapping, as (key, value) pairs.
brand_mapping ==
    << <<<<"b","m","w">>, <<"B","M","W">>>>,
       <<<<"m","e","r","c","e","d","e","s">>, <<"M","e","r","c","e","d","e","s","-","B","e","n","z">>>>,
       <<<<"m","e","r","c","e","d","e","s"," ","b","e","n","z">>, <<"M","e","r","c","e","d","e","s","-","B","e","n","z">>>>,
       <<<<"v","o","l","k","s","w","a","g","e","n">>, <<"V","o","l","k","s","w","a","g","e","n">>>>,
       <<<<"v","w">>, <<"V","o","l","k","s","w","a","g","e","n">>>> >>

\* _clean_fuel_types: fuel_mapping.
fuel_mapping ==
    << <<<<"g","a","s","o","l","i","n","a">>, <<"G","a","s","o","l","i","n","e">>>>,
       <<<<"d","i","e","s","e","l">>, <<"D","i","e","s","e","l">>>>,
       <<<<"h","i_acute","b","r","i","d","o">>, <<"H","y","b","r","i","d">>>>,
       <<<<"h","i","b","r","i","d","o">>, <<"H","y","b","r","i","d">>>> >>

\* _clean_colors: color_mapping, in dict order.
color_mapping ==
    << <<<<"n","e","g","r","o">>, <<"B","l","a","c","k">>>>,
       <<<<"b","l","a","n","c","o">>, <<"W","h","i","t","e">>>>,
       <<<<"g","r","i","s">>, <<"G","r","a","y">>>>,
       <<<<"a","z","u","l">>, <<"B","l","u","e">>>>,
       <<<<"r","o","j","o">>, <<"R","e","d">>>>,
       <<<<"p","l","a","t","e","a","d","o">>, <<"S","i","l","v","e","r">>>>,
       <<<<"c","a","f","e_acute">>, <<"B","r","o","w","n">>>>,
       <<<<"v","i","n","o">>, <<"B","u","r","g","u","n","d","y">>>> >>

\* _add_derived_features: luxury_brands.
luxury_brands ==
    { <<"B","M","W">>,
      <<"M","e","r","c","e","d","e","s","-","B","e","n","z">>,
      <<"A","u","d","i">>,
      <<"P","o","r","s","c","h","e">>,
      <<"L","e","x","u","s">>,
      <<"J","a","g","u","a","r">>,
      <<"L","a","n","d"," ","R","o","v","e","r">> }

\* _remove_empty_columns: empty_cols.
empty_cols == {"doors", "style", "location", "province", "features"}

MercedesBenz == <<"M","e","r","c","e","d","e","s","-","B","e","n","z">>

BenzPrefix == <<"B","E","N","Z"," ">>

YearMin == 1950

YearMax == 2026

MileageMax == 500000

EngineMin == 500

EngineMax == 6000

RateMin == 400

RateMax == 600

_remove_empty_columns(df) == [df EXCEPT !.cols = df.cols \ empty_cols]

\* lower, strip, alias map, title.
clean_brand_cell(c) ==
    str_title(ReplaceByMap(str_strip(str_lower(c)), brand_mapping))

_clean_brands(df) ==
    IF HasCol(df, "brand")
    THEN SetCol(df, "brand", [i \in RowIndex(df) |-> clean_brand_cell(df.rows[i].brand)])
    ELSE df

\* '' -> None, strip, upper; for rows of brand Mercedes-Benz, drop 'BENZ '.
strip_benz(c) == IF IsNull(c) THEN NULL ELSE Some(str_replace(Val(c), BenzPrefix, <<>>))

clean_model_cell(r) ==
    LET m == str_upper(str_strip(ReplaceValue(r.model, <<>>)))
    IN  IF ~IsNull(r.brand) /\ Val(r.brand) = MercedesBenz
        THEN strip_benz(m)
        ELSE m

\* df['brand'] raises KeyError when the batch has a model but no brand column.
_clean_models_raises(df) == HasCol(df, "model") /\ ~HasCol(df, "brand")

_clean_models(df) ==
    IF HasCol(df, "model")
    THEN SetCol(df, "model", [i \in RowIndex(df) |-> clean_model_cell(df.rows[i])])
    ELSE df

\* '' -> None, lower, fuel map.
clean_fuel_cell(c) ==
    ReplaceByMap(str_lower(ReplaceValue(c, <<>>)), fuel_mapping)

_clean_fuel_types(df) ==
    IF HasCol(df, "fuel_type")
    THEN SetCol(df, "fuel_type", [i \in RowIndex(df) |-> clean_fuel_cell(df.rows[i].fuel_type)])
    ELSE df

clean_year_cell(c) == IF IntLt(c, YearMin) \/ IntGt(c, YearMax) THEN NULL ELSE c

_clean_years(df) ==
    IF HasCol(df, "year")
    THEN SetCol(df, "year", [i \in RowIndex(df) |-> clean_year_cell(df.rows[i].year)])
    ELSE df

\* Mutant: only the zero mileage is nulled.
clean_mileage_cell_zero_only(c) == IF IntEq(c, 0) THEN NULL ELSE c

\* > 500000 -> None, then == 0 -> None.
clean_mileage_cell(c) ==
    LET c1 == IF IntGt(c, MileageMax) THEN NULL ELSE c
    IN  IF IntEq(c1, 0) THEN NULL ELSE c1

_clean_mileage(df) ==
    IF HasCol(df, "mileage")
    THEN SetCol(df, "mileage", [i \in RowIndex(df) |-> clean_mileage_cell(df.rows[i].mileage)])
    ELSE df

clean_engine_cell(c) == IF IntLt(c, EngineMin) \/ IntGt(c, EngineMax) THEN NULL ELSE c

_clean_engine_cc(df) ==
    IF HasCol(df, "engine_cc")
    THEN SetCol(df, "engine_cc", [i \in RowIndex(df) |-> clean_engine_cell(df.rows[i].engine_cc)])
    ELSE df

\* for spanish, english in color_mapping.items(): replace(spanish, english.lower())
RECURSIVE translate_colors(_, _)
translate_colors(s, k) ==
    IF k > Len(color_mapping) THEN s
    ELSE translate_colors(
             str_replace(s, color_mapping[k][1], lower(color_mapping[k][2])), k + 1)

translate_all_colors(c) == IF IsNull(c) THEN NULL ELSE Some(translate_colors(Val(c), 1))

clean_color_cell(c) == str_title(translate_all_colors(str_strip(str_lower(c))))

clean_color_column(df, col) ==
    IF HasCol(df, col)
    THEN SetCol(df, col, [i \in RowIndex(df) |-> clean_color_cell(df.rows[i][col])])
    ELSE df

_clean_colors(df) ==
    clean_color_column(clean_color_column(df, "color_exterior"), "color_interior")

exchange_rate_cell(r) == Div(r.price_colones, r.price_usd)

\* Mutant: flags every rate that is not strictly inside (400, 600).
price_flag_cell_exclusive(rate) ==
    Some(~(FloatGt(rate, RateMin) /\ FloatLt(rate, RateMax)))

price_flag_cell(rate) == Some(FloatLt(rate, RateMin) \/ FloatGt(rate, RateMax))

_validate_prices(df) ==
    IF HasCol(df, "price_colones") /\ HasCol(df, "price_usd")
    THEN SetCol(SetCol(df, "exchange_rate",
                       [i \in RowIndex(df) |-> exchange_rate_cell(df.rows[i])]),
                "price_flag",
                [i \in RowIndex(df) |-> price_flag_cell(exchange_rate_cell(df.rows[i]))])
    ELSE df

clean_phone_cell(c) == IF IsNull(c) THEN NULL ELSE Some(keep_digits_and_hyphens(Val(c)))

_clean_phone_numbers(df) ==
    IF HasCol(df, "seller_phone")
    THEN SetCol(df, "seller_phone",
                [i \in RowIndex(df) |-> clean_phone_cell(df.rows[i].seller_phone)])
    ELSE df

\* current_year - df['year']: null for a null year.
vehicle_age_cell(year, now) == IF IsNull(year) THEN NULL ELSE Some(now - Val(year))

\* Mutant: divides by the age itself.
price_per_year_cell_no_offset(r) == Div(r.price_usd, r.vehicle_age)

\* df['price_usd'] / (df['vehicle_age'] + 1)
price_per_year_cell(r) ==
    Div(r.price_usd, IF IsNull(r.vehicle_age) THEN NULL ELSE Some(Val(r.vehicle_age) + 1))

\* df['brand'].isin(luxury_brands): False for a null brand.
is_luxury_cell(brand) == Some(~IsNull(brand) /\ Val(brand) \in luxury_brands)

add_vehicle_age(df, now) ==
    IF HasCol(df, "year")
    THEN SetCol(df, "vehicle_age", [i \in RowIndex(df) |-> vehicle_age_cell(df.rows[i].year, now)])
    ELSE df

add_price_per_year(df) ==
    IF HasCol(df, "price_usd") /\ HasCol(df, "vehicle_age")
    THEN SetCol(df, "price_per_year", [i \in RowIndex(df) |-> price_per_year_cell(df.rows[i])])
    ELSE df

add_is_luxury(df) ==
    IF HasCol(df, "brand")
    THEN SetCol(df, "is_luxury", [i \in RowIndex(df) |-> is_luxury_cell(df.rows[i].brand)])
    ELSE df

_add_derived_features(df, now) == add_is_luxury(add_price_per_year(add_vehicle_age(df, now)))

\* The steps of clean_data in order, on a copy of df.
clean_steps(df, now) ==
    _add_derived_features(
      _clean_phone_numbers(
        _validate_prices(
          _clean_colors(
            _clean_engine_cc(
              _clean_mileage(
                _clean_years(
                  _clean_fuel_types(
                    _clean_models(
                      _clean_brands(
                        _remove_empty_columns(df)))))))))), now)

\* clean_data(df): its result, or the KeyError that _clean_models raises.
clean_data(df, now) ==
    IF _clean_models_raises(_clean_brands(_remove_empty_columns(df)))
    THEN [raised |-> TRUE, df |-> df]
    ELSE [raised |-> FALSE, df |-> clean_steps(df, now)]

(***************************************************************************)
(* DataValidator                                                           *)
(***************************************************************************)
\* DataValidator.__init__: self.validation_rules, in dict order.
validation_rules ==
    << [field |-> "year",          min |-> 1950,   max |-> 2026],
       [field |-> "price_usd",     min |-> 1000,   max |-> 500000],
       [field |-> "price_colones", min |-> 500000, max |-> 250000000],
       [field |-> "mileage",       min |-> 0,      max |-> 500000],
       [field |-> "engine_cc",     min |-> 500,    max |-> 6000],
       [field |-> "exchange_rate", min |-> 400,    max |-> 600] >>

required_fields == <<"url", "vehicle_id", "brand", "price_usd", "price_colones">>

\* df[field]: a new Series of the column's cells.
Column(df, field) == [i \in 1..Len(df.rows) |-> df.rows[i][field]]

\* Series.dropna(): a new Series without the null cells.
dropna(series) == SelectSeq(series, LAMBDA c : ~IsNull(c))

\* Series.isnull().sum()
null_count(series) == Cardinality({i \in 1..Len(series) : IsNull(series[i])})

\* value < n, value > n on the cells of a column (exchange_rate is the float one).
CellLt(field, c, n) == IF field = "exchange_rate" THEN FloatLt(c, n) ELSE IntLt(c, n)

CellGt(field, c, n) == IF field = "exchange_rate" THEN FloatGt(c, n) ELSE IntGt(c, n)

MissingField(field) == [kind |-> "Missing required field", field |-> field]

Warning(kind, field, count) == [kind |-> kind, field |-> field, count |-> count]

\* Mutant: null cells in a required column fail the report too.
required_field_check_strict(df, field) ==
    IF ~HasCol(df, field)
    THEN [errors |-> <<MissingField(field)>>, warnings |-> <<>>, passed |-> FALSE]
    ELSE IF null_count(Column(df, field)) > 0
         THEN [errors |-> <<>>,
               warnings |-> <<Warning("null values", field, null_count(Column(df, field)))>>,
               passed |-> FALSE]
         ELSE [errors |-> <<>>, warnings |-> <<>>, passed |-> TRUE]

\* Mutant: isnull().all() in place of isnull().any().
required_field_check_all_null(df, field) ==
    IF ~HasCol(df, field)
    THEN [errors |-> <<MissingField(field)>>, warnings |-> <<>>, passed |-> FALSE]
    ELSE IF null_count(Column(df, field)) = Len(df.rows)
         THEN [errors |-> <<>>,
               warnings |-> <<Warning("null values", field, null_count(Column(df, field)))>>,
               passed |-> TRUE]
         ELSE [errors |-> <<>>, warnings |-> <<>>, passed |-> TRUE]

\* One pass of the required-fields loop: an absent column is an error and fails
\* the report, null cells in a present column are a warning.
required_field_check(df, field) ==
    IF ~HasCol(df, field)
    THEN [errors |-> <<MissingField(field)>>, warnings |-> <<>>, passed |-> FALSE]
    ELSE IF null_count(Column(df, field)) > 0
         THEN [errors |-> <<>>,
               warnings |-> <<Warning("null values", field, null_count(Column(df, field)))>>,
               passed |-> TRUE]
         ELSE [errors |-> <<>>, warnings |-> <<>>, passed |-> TRUE]

RECURSIVE check_required_fields(_, _)
check_required_fields(df, k) ==
    IF k > Len(required_fields)
    THEN [errors |-> <<>>, warnings |-> <<>>, passed |-> TRUE]
    ELSE LET h == required_field_check(df, required_fields[k])
             t == check_required_fields(df, k + 1)
         IN  [errors |-> h.errors \o t.errors,
              warnings |-> h.warnings \o t.warnings,
              passed |-> h.passed /\ t.passed]

\* Mutant: drops the rows with a null cell from the caller's frame
\* (dropna in place) before counting.
_validate_numeric_range_inplace(df, field, min_val, max_val) ==
    IF ~HasCol(df, field) THEN [df |-> df, invalid_count |-> 0]
    ELSE LET kept == SelectSeq(df.rows, LAMBDA r : ~IsNull(r[field]))
         IN  [df |-> [df EXCEPT !.rows = kept],
              invalid_count |->
                  Cardinality({i \in 1..Len(kept) :
                      \/ CellLt(field, kept[i][field], min_val)
                      \/ CellGt(field, kept[i][field], max_val)})]

\* _validate_numeric_range: counts the non-null cells outside [min_val, max_val];
\* df is the caller's frame as the call leaves it.
_validate_numeric_range(df, field, min_val, max_val) ==
    IF ~HasCol(df, field) THEN [df |-> df, invalid_count |-> 0]
    ELSE LET valid_data == dropna(Column(df, field))
         IN  [df |-> df,
              invalid_count |->
                  Cardinality({i \in 1..Len(valid_data) :
                      \/ CellLt(field, valid_data[i], min_val)
                      \/ CellGt(field, valid_data[i], max_val)})]

\* The numeric-range loop over validation_rules, from rule k on.
RECURSIVE check_numeric_ranges(_, _)
check_numeric_ranges(df, k) ==
    IF k > Len(validation_rules) THEN [df |-> df, warnings |-> <<>>]
    ELSE LET rule == validation_rules[k]
         IN  IF ~HasCol(df, rule.field) THEN check_numeric_ranges(df, k + 1)
             ELSE LET r == _validate_numeric_range(df, rule.field, rule.min, rule.max)
                      t == check_numeric_ranges(r.df, k + 1)
                  IN  [df |-> t.df,
                       warnings |->
                           (IF r.invalid_count > 0
                            THEN <<Warning("outside valid range", rule.field, r.invalid_count)>>
                            ELSE <<>>) \o t.warnings]

\* Mutant: duplicated(keep=False), which marks the first occurrence too.
duplicate_count_keep_false(series) ==
    Cardinality({i \in 1..Len(series) :
        \E j \in 1..Len(series) : j # i /\ series[j] = series[i]})

\* Series.duplicated().sum(): every occurrence of a value after its first
\* (null cells count as one value).
duplicate_count(series) ==
    Cardinality({i \in 1..Len(series) : \E j \in 1..(i - 1) : series[j] = series[i]})

check_duplicates(df) ==
    IF HasCol(df, "vehicle_id") /\ duplicate_count(Column(df, "vehicle_id")) > 0
    THEN <<Warning("duplicate vehicle IDs", "vehicle_id",
                   duplicate_count(Column(df, "vehicle_id")))>>
    ELSE <<>>

\* _validate_price_consistency: among the rows with both prices positive, the
\* number of colones/usd ratios outside the exchange_rate rule.
_validate_price_consistency(df) ==
    IF ~HasCol(df, "price_usd") \/ ~HasCol(df, "price_colones") THEN 0
    ELSE LET valid_prices ==
                 SelectSeq(df.rows,
                           LAMBDA r : IntGt(r.price_usd, 0) /\ IntGt(r.price_colones, 0))
             min_rate == validation_rules[6].min
             max_rate == validation_rules[6].max
         IN  Cardinality({i \in 1..Len(valid_prices) :
                 LET rate == Div(valid_prices[i].price_colones, valid_prices[i].price_usd)
                 IN  FloatLt(rate, min_rate) \/ FloatGt(rate, max_rate)})

check_price_consistency(df) ==
    IF HasCol(df, "price_usd") /\ HasCol(df, "price_colones")
       /\ _validate_price_consistency(df) > 0
    THEN <<Warning("inconsistent USD/Colones prices", "price_usd",
                   _validate_price_consistency(df))>>
    ELSE <<>>

\* validate_data(df): the report, and df as the call leaves it.
validate_data(df) ==
    LET req == check_required_fields(df, 1)
        rng == check_numeric_ranges(df, 1)
    IN  [df |-> rng.df,
         report |->
             [total_records |-> Len(df.rows),
              validation_errors |-> req.errors,
              warnings |-> req.warnings \o rng.warnings
                           \o check_duplicates(rng.df)
                           \o check_price_consistency(rng.df),
              passed_validation |-> req.passed]]

(***************************************************************************)
(* Input batches                                                           *)
(***************************************************************************)
MaxRows == 3

MaxRefYear == 2026

\* The years pd.Timestamp.now().year may return.
RefYears == 2025..MaxRefYear

\* A raw record of a Toyota with every field in range; the derived columns
\* do not exist yet.
BaseRow ==
    [url |-> Some("u0"), vehicle_id |-> Some("v0"),
     brand |-> Some(<<"T","o","y","o","t","a">>),
     model |-> Some(<<"C","o","r","o","l","l","a">>),
     year |-> Some(2020), price_colones |-> Some(10000000), price_usd |-> Some(20000),
     mileage |-> Some(50000),
     fuel_type |-> Some(<<"d","i","e","s","e","l">>),
     transmission |-> Some(<<"M","a","n","u","a","l">>),
     engine_cc |-> Some(1800),
     color_exterior |-> Some(<<"n","e","g","r","o">>),
     color_interior |-> NULL,
     seller_phone |-> Some(<<"8","8","8","8","-","1","2","3","4">>),
     exchange_rate |-> NULL, price_flag |-> NULL, vehicle_age |-> NULL,
     price_per_year |-> NULL, is_luxury |-> NULL]

BrandCells ==
    { Some(<<"B","M","W">>),
      Some(<<"b","m","w">>),
      Some(<<"M","e","r","c","e","d","e","s","-","B","e","n","z">>),
      Some(<<"m","e","r","c","e","d","e","s">>),
      Some(<<"m","e","r","c","e","d","e","s"," ","b","e","n","z">>),
      Some(<<"A","u","d","i">>),
      Some(<<"P","o","r","s","c","h","e">>),
      Some(<<" ","p","o","r","s","c","h","e"," ">>),
      Some(<<"L","e","x","u","s">>),
      Some(<<"J","a","g","u","a","r">>),
      Some(<<"L","a","n","d"," ","R","o","v","e","r">>),
      Some(<<"T","o","y","o","t","a">>),
      Some(<<"v","w">>),
      Some(<<>>),
      NULL }

ModelCells ==
    { Some(<<>>),
      Some(<<" "," ">>),
      Some(<<" ","c","o","r","o","l","l","a">>),
      Some(<<"B","e","n","z"," ","C","2","0","0">>),
      Some(<<"b","e","n","z"," "," ","g","l","c">>),
      NULL }

FuelCells ==
    { Some(<<"g","a","s","o","l","i","n","a">>),
      Some(<<"G","a","s","o","l","i","n","a">>),
      Some(<<"h","i","b","r","i","d","o">>),
      Some(<<"h","i_acute","b","r","i","d","o">>),
      Some(<<"G","a","s","o","l","i","n","e">>),
      Some(<<>>),
      NULL }

ColorCells ==
    { Some(<<"B","l","a","n","c","o"," ">>),
      Some(<<"g","r","i","s"," ","o","s","c","u","r","o">>),
      Some(<<"c","a","f","e_acute">>),
      NULL }

PhoneCells ==
    { Some(<<"(","5","0","6",")"," ","8","8","8","8","-","1","2","3","4">>),
      NULL }

YearCells == {NULL, Some(1800), Some(1949), Some(1950), Some(2025), Some(2026), Some(2027)}

MileageCells ==
    {NULL, Some(0 - 5), Some(0), Some(1), Some(500000), Some(500001), Some(600000)}

EngineCells == {NULL, Some(499), Some(500), Some(6000), Some(6001)}

ColonesCells ==
    {NULL, Some(0), Some(399999), Some(400000), Some(600000), Some(600001), Some(10000000)}

UsdCells == {NULL, Some(0 - 1000), Some(0), Some(1000), Some(5000), Some(20000)}

\* Records that differ from BaseRow in one group of fields.
VariedRows ==
    {[BaseRow EXCEPT !.brand = b] : b \in BrandCells}
    \cup {[BaseRow EXCEPT !.brand = b, !.model = m] :
              b \in {Some(<<"T","o","y","o","t","a">>), Some(<<"m","e","r","c","e","d","e","s">>)},
              m \in ModelCells}
    \cup {[BaseRow EXCEPT !.fuel_type = f] : f \in FuelCells}
    \cup {[BaseRow EXCEPT !.color_exterior = c, !.color_interior = c] : c \in ColorCells}
    \cup {[BaseRow EXCEPT !.seller_phone = ph] : ph \in PhoneCells}
    \cup {[BaseRow EXCEPT !.year = y] : y \in YearCells}
    \cup {[BaseRow EXCEPT !.mileage = mi] : mi \in MileageCells}
    \cup {[BaseRow EXCEPT !.engine_cc = e] : e \in EngineCells}
    \cup {[BaseRow EXCEPT !.price_colones = c, !.price_usd = u] :
              c \in ColonesCells, u \in UsdCells}
    \cup {[BaseRow EXCEPT !.year = Some(2026), !.price_usd = u] : u \in UsdCells}

\* The records of the end-to-end scenario and their neighbours: (a) a valid BMW
\* of 2020, (b) year 1800 and mileage 600000, (c) a record
\* without price_usd that repeats the vehicle id of (a), a record without
\* vehicle id and with a negative mileage, a second record without vehicle id
\* whose prices give an implausible rate.
RowA ==
    [BaseRow EXCEPT !.url = Some("u1"), !.vehicle_id = Some("v1"),
                    !.brand = Some(<<"B","M","W">>),
                    !.fuel_type = Some(<<"g","a","s","o","l","i","n","a">>)]

RowB ==
    [BaseRow EXCEPT !.url = Some("u3"), !.vehicle_id = Some("v3"),
                    !.year = Some(1800), !.mileage = Some(600000)]

RowC ==
    [BaseRow EXCEPT !.url = Some("u4"), !.vehicle_id = Some("v1"), !.price_usd = NULL]

RowNoId ==
    [BaseRow EXCEPT !.url = Some("u5"), !.vehicle_id = NULL, !.mileage = Some(0 - 5)]

RowOddRate ==
    [BaseRow EXCEPT !.url = Some("u6"), !.vehicle_id = NULL, !.price_usd = Some(5000)]

ScenarioRows == {RowA, RowB, RowC, RowNoId, RowOddRate}

\* The raw table has url UNIQUE: no two rows of a batch share a url.
DistinctUrls(rows) ==
    \A i, j \in 1..Len(rows) : i # j => rows[i].url # rows[j].url

RawRowSeqs ==
    {<<r>> : r \in VariedRows}
    \cup {rows \in UNION {[1..n -> ScenarioRows] : n \in 1..MaxRows} : DistinctUrls(rows)}

\* The column sets of the batches: the raw table's columns, or those less one
\* of the columns a step or a rule looks for.
ColumnSets ==
    {RawColumns}
    \cup {RawColumns \ {c} :
              c \in {"url", "vehicle_id", "brand", "price_usd", "price_colones",
                     "year", "mileage", "model"}}
    \cup {RawColumns \ {"brand", "model"}}

\* A DataFrame with the given columns: the cells of an absent column are null.
Frame(cols, rows) ==
    [cols |-> cols,
     rows |-> [i \in 1..Len(rows) |->
                  [c \in CellColumns |-> IF c \in cols THEN rows[i][c] ELSE NULL]]]

\* No batch is being cleaned on its own.
CleanIdle ==
    /\ raw = Frame(RawColumns, <<>>)
    /\ current_year = MaxRefYear
    /\ pc = "Idle"
    /\ raw_report = NULL
    /\ clean = NULL
    /\ clean_report = NULL
    /\ reclean = NULL

\* No ETL run and no insert has happened: an empty raw table, no clean table.
EtlIdle ==
    /\ raw_store = [cols |-> RawColumns, rows |-> <<>>]
    /\ insert_result = NULL
    /\ clean_store = NULL
    /\ mode = "none"
    /\ stage = "Idle"
    /\ raw_data = NULL
    /\ validation_report = NULL
    /\ cleaned = NULL
    /\ clean_validation = NULL
    /\ stages_run = <<>>
    /\ store_before = NULL
    /\ reraised = FALSE
    /\ exit_report = NULL

\* No extractor has been called.
ParseIdle ==
    /\ parse_text = <<>>
    /\ parse_result = NULL

\* No scrape has started.
ScrapeIdle ==
    /\ site = <<>>
    /\ scrape_pc = "Idle"
    /\ page = 1
    /\ all_links = <<>>
    /\ requests = 0
    /\ requested = 0
    /\ response = "none"
    /\ vehicle_links = <<>>
    /\ processed = 0
    /\ fetched = <<>>
    /\ saved = <<>>
    /\ vehicles_scraped = 0
    /\ errors = 0
    /\ summary = NULL
    /\ last_event = "none"
    /\ clock = 0
    /\ back_to_back = 0
    /\ files = {}

(***************************************************************************)
(* The run: validate raw, clean, validate clean, and a second cleaning pass *)
(***************************************************************************)
Init ==
    /\ EtlIdle
    /\ ScrapeIdle
    /\ ParseIdle
    /\ raw \in {Frame(cols, rows) : cols \in ColumnSets, rows \in RawRowSeqs}
    /\ current_year \in RefYears
    /\ pc = "ValidateRaw"
    /\ raw_report = NULL
    /\ clean = NULL
    /\ clean_report = NULL
    /\ reclean = NULL

\* validation_report = self.validator.validate_data(raw_data)
ValidateRaw ==
    /\ pc = "ValidateRaw"
    /\ LET v == validate_data(raw)
       IN  /\ raw' = v.df
           /\ raw_report' = Some(v.report)
    /\ pc' = "Clean"
    /\ UNCHANGED <<current_year, clean, clean_report, reclean>>
    /\ UNCHANGED <<etl_vars, scrape_vars, parse_vars>>

\* clean_data = self.cleaner.clean_data(raw_data)
Clean ==
    /\ pc = "Clean"
    /\ LET c == clean_data(raw, current_year)
       IN  /\ clean' = Some(c)
           /\ pc' = IF c.raised THEN "Failed" ELSE "ValidateClean"
    /\ UNCHANGED <<raw, current_year, raw_report, clean_report, reclean>>
    /\ UNCHANGED <<etl_vars, scrape_vars, parse_vars>>

\* clean_validation = self.validator.validate_data(clean_data)
ValidateClean ==
    /\ pc = "ValidateClean"
    /\ LET v == validate_data(Val(clean).df)
       IN  /\ clean' = Some([Val(clean) EXCEPT !.df = v.df])
           /\ clean_report' = Some(v.report)
    /\ pc' = "Cleaned"
    /\ UNCHANGED <<raw, current_year, raw_report, reclean>>
    /\ UNCHANGED <<etl_vars, scrape_vars, parse_vars>>

\* clean_data applied to its own output.
CleanAgain ==
    /\ pc = "Cleaned"
    /\ reclean' = Some(clean_data(Val(clean).df, current_year))
    /\ pc' = "Done"
    /\ UNCHANGED <<raw, current_year, raw_report, clean, clean_report>>
    /\ UNCHANGED <<etl_vars, scrape_vars, parse_vars>>

Next == ValidateRaw \/ Clean \/ ValidateClean \/ CleanAgain

Spec == Init /\ [][Next]_vars

(***************************************************************************)
(* Properties                                                              *)
(***************************************************************************)
\* clean_data has returned a frame.
Cleaned == pc \in {"ValidateClean", "Cleaned", "Done"}

CleanDf == Val(clean).df

RowIndexes == 1..Len(raw.rows)

\* C1: for every record whose price_colones and price_usd are both positive,
\* the cleaned exchange_rate is the quotient price_colones / price_usd, and
\* price_flag is True exactly when that quotient is below 400 or above 600.
C1_ExchangeRateAndFlag ==
    (Cleaned /\ HasCol(raw, "price_colones") /\ HasCol(raw, "price_usd")) =>
        \A i \in RowIndexes :
            LET r == raw.rows[i]
                o == CleanDf.rows[i]
            IN  (IntGt(r.price_colones, 0) /\ IntGt(r.price_usd, 0)) =>
                    /\ ~IsNull(o.exchange_rate)
                    /\ Val(o.exchange_rate).kind = "fin"
                    /\ Val(o.exchange_rate).num = Val(r.price_colones)
                    /\ Val(o.exchange_rate).den = Val(r.price_usd)
                    /\ o.price_flag =
                           Some(\/ Val(r.price_colones) < 400 * Val(r.price_usd)
                                \/ Val(r.price_colones) > 600 * Val(r.price_usd))

\* A cleaned record whose rate is exactly 400 and is not flagged.
C1_Witness ==
    /\ Cleaned
    /\ \E i \in RowIndexes :
           /\ raw.rows[i].price_colones = Some(400000)
           /\ raw.rows[i].price_usd = Some(1000)
           /\ CleanDf.rows[i].price_flag = Some(FALSE)

\* C2: in the output of clean_data, year is null or in [1950, 2026], mileage is
\* null or in (0, 500000], engine_cc is null or in [500, 6000], and a value
\* that was inside its range is unchanged.
C2_RangeNullingTotal ==
    Cleaned =>
        \A i \in RowIndexes :
            LET r == raw.rows[i]
                o == CleanDf.rows[i]
            IN  /\ IsNull(o.year) \/ (1950 <= Val(o.year) /\ Val(o.year) <= 2026)
                /\ IsNull(o.mileage) \/ (0 < Val(o.mileage) /\ Val(o.mileage) <= 500000)
                /\ IsNull(o.engine_cc)
                       \/ (500 <= Val(o.engine_cc) /\ Val(o.engine_cc) <= 6000)
                /\ (~IsNull(r.year) /\ 1950 <= Val(r.year) /\ Val(r.year) <= 2026)
                       => o.year = r.year
                /\ (~IsNull(r.mileage) /\ 0 < Val(r.mileage) /\ Val(r.mileage) <= 500000)
                       => o.mileage = r.mileage
                /\ (~IsNull(r.engine_cc) /\ 500 <= Val(r.engine_cc)
                        /\ Val(r.engine_cc) <= 6000)
                       => o.engine_cc = r.engine_cc

\* C3: a second cleaning pass returns the frame the first pass returned, in
\* every column.
C3_CleanerIdempotent ==
    pc = "Done" => (~Val(reclean).raised /\ Val(reclean).df = CleanDf)

\* C4: is_luxury is True for a record of any of the seven luxury brands and
\* False for every other brand (Toyota), and only luxury brands are flagged.
C4_LuxuryFlag ==
    (Cleaned /\ HasCol(raw, "brand")) =>
        \A i \in RowIndexes :
            LET r == raw.rows[i]
                o == CleanDf.rows[i]
            IN  /\ (~IsNull(r.brand) /\ Val(r.brand) \in luxury_brands)
                       => o.is_luxury = Some(TRUE)
                /\ r.brand = BaseRow.brand => o.is_luxury = Some(FALSE)
                /\ o.is_luxury = Some(TRUE)
                       => (~IsNull(o.brand) /\ Val(o.brand) \in luxury_brands)

\* C5: vehicle_age is reference_year - year when the cleaned year is present
\* and null when it is null; price_per_year is the quotient
\* price_usd / (vehicle_age + 1) when both are present (for a zero divisor the
\* float quotient: +inf, -inf or NaN by the sign of price_usd).
C5_AgeAndPricePerYear ==
    (Cleaned /\ HasCol(raw, "year")) =>
        \A i \in RowIndexes :
            LET r == raw.rows[i]
                o == CleanDf.rows[i]
                ppy == o.price_per_year
            IN  /\ IsNull(o.year) => IsNull(o.vehicle_age)
                /\ (IntLt(r.year, 1950) \/ IntGt(r.year, 2026)) => IsNull(o.vehicle_age)
                /\ ~IsNull(o.year) => o.vehicle_age = Some(current_year - Val(o.year))
                /\ (HasCol(raw, "price_usd") /\ ~IsNull(o.price_usd)
                        /\ ~IsNull(o.vehicle_age)) =>
                       LET d == Val(o.vehicle_age) + 1
                           p == Val(o.price_usd)
                       IN  IF d # 0
                           THEN /\ ~IsNull(ppy)
                                /\ Val(ppy).kind = "fin"
                                /\ Val(ppy).num * d = p * Val(ppy).den
                           ELSE /\ p > 0 => ppy = Some(Inf)
                                /\ p < 0 => ppy = Some(NegInf)
                                /\ p = 0 => IsNull(ppy)

\* A cleaned record with a year, an age of at least one and a finite
\* price_per_year.
C5_Witness ==
    /\ Cleaned
    /\ \E i \in RowIndexes :
           /\ ~IsNull(CleanDf.rows[i].vehicle_age)
           /\ Val(CleanDf.rows[i].vehicle_age) >= 1
           /\ ~IsNull(CleanDf.rows[i].price_per_year)
           /\ Val(CleanDf.rows[i].price_per_year).kind = "fin"

\* C6: a validate_data call leaves its batch as it found it: the same columns
\* and the same cells, whatever the report holds.
C6_ValidatorKeepsInput ==
    [][ /\ pc = "ValidateRaw" => raw' = raw
        /\ pc = "ValidateClean" => Val(clean').df = Val(clean).df ]_vars

\* A batch with null cells that validation has reported on, with warnings.
C6_Witness ==
    /\ pc = "Clean"
    /\ Val(raw_report).warnings # <<>>
    /\ \E i \in RowIndexes : IsNull(raw.rows[i].year) \/ IsNull(raw.rows[i].price_usd)

\* The required columns a frame lacks.
AbsentRequired(df) ==
    {required_fields[k] : k \in {j \in 1..Len(required_fields) :
                                     ~HasCol(df, required_fields[j])}}

\* The positions of the entries of a sequence that are in a set.
Matching(entries, wanted) == {k \in 1..Len(entries) : entries[k] \in wanted}

\* The errors and the warnings a report can hold about a batch of n rows.
ErrorsAbout(fields) == {MissingField(f) : f \in fields}

WarningsOf(kinds, fields, n) ==
    {Warning(kind, f, c) : kind \in kinds, f \in fields, c \in 0..n}

AllFields == RawColumns \cup CellColumns

\* What C7 says of the report of one validate_data call on df.
ReportFailsOnlyOnAbsentColumns(df, report) ==
    /\ report.passed_validation = (AbsentRequired(df) = {})
    /\ Len(report.validation_errors) = Cardinality(AbsentRequired(df))
    /\ \A k \in 1..Len(report.validation_errors) :
           /\ report.validation_errors[k].kind = "Missing required field"
           /\ report.validation_errors[k].field \in AbsentRequired(df)
    /\ \A f \in AbsentRequired(df) :
           Cardinality(Matching(report.validation_errors, ErrorsAbout({f}))) = 1

\* C7: passed_validation is False exactly when a required column is absent
\* from the batch, with one 'Missing required field' error per absent column
\* and no other error; nulls, out-of-range values, duplicate ids and
\* inconsistent prices add warnings only.
C7_FailsIffRequiredColumnAbsent ==
    /\ raw_report # NULL => ReportFailsOnlyOnAbsentColumns(raw, Val(raw_report))
    /\ clean_report # NULL => ReportFailsOnlyOnAbsentColumns(CleanDf, Val(clean_report))

\* A batch with every required column, null cells, out-of-range values and a
\* duplicate id, whose report carries the warnings and passes.
C7_Witness ==
    /\ raw_report # NULL
    /\ AbsentRequired(raw) = {}
    /\ Val(raw_report).passed_validation
    /\ \A kind \in {"null values", "outside valid range", "duplicate vehicle IDs",
                    "inconsistent USD/Colones prices"} :
           Matching(Val(raw_report).warnings,
                    WarningsOf({kind}, AllFields, Len(raw.rows))) # {}

\* The vehicle_id cells of the raw batch, a null cell being one value.
RawIds == {raw.rows[i].vehicle_id : i \in RowIndexes}

DuplicateWarnings(report) ==
    Matching(report.warnings,
             WarningsOf({"duplicate vehicle IDs"}, AllFields, report.total_records))

\* Exactly two records share a vehicle_id and every other id is unique.
OneDuplicatePair ==
    \E i, j \in RowIndexes :
        /\ i < j
        /\ raw.rows[i].vehicle_id = raw.rows[j].vehicle_id
        /\ \A k, l \in RowIndexes :
               (k < l /\ raw.rows[k].vehicle_id = raw.rows[l].vehicle_id)
                   => (k = i /\ l = j)

\* C8: the duplicate warning carries (number of records) - (number of distinct
\* vehicle_id values), it is absent when that number is 0, and it is 1 for one
\* duplicate pair among otherwise unique ids.
C8_DuplicateCount ==
    (raw_report # NULL /\ HasCol(raw, "vehicle_id")) =>
        LET count == Len(raw.rows) - Cardinality(RawIds)
            found == DuplicateWarnings(Val(raw_report))
        IN  /\ count = 0 => found = {}
            /\ count > 0 =>
                   /\ Cardinality(found) = 1
                   /\ \A k \in found : Val(raw_report).warnings[k].count = count
            /\ OneDuplicatePair =>
                   \E k \in found : Val(raw_report).warnings[k].count = 1

\* Three records, two of them with the same id, reported as one duplicate.
C8_Witness ==
    /\ raw_report # NULL
    /\ HasCol(raw, "vehicle_id")
    /\ Len(raw.rows) = 3
    /\ OneDuplicatePair
    /\ \E k \in DuplicateWarnings(Val(raw_report)) : Val(raw_report).warnings[k].count = 1

\* One record of the batch has no price_usd and another record carries it.
OneRecordLacksPriceUsd ==
    /\ raw_report # NULL
    /\ HasCol(raw, "price_usd")
    /\ \E i \in RowIndexes : IsNull(raw.rows[i].price_usd)
    /\ \E i \in RowIndexes : ~IsNull(raw.rows[i].price_usd)

\* C9 as stated: a record without price_usd, next to records that carry it,
\* makes the first validation report the missing-field error and fail.
C9_MissingPriceFailsValidation ==
    OneRecordLacksPriceUsd =>
        /\ Matching(Val(raw_report).validation_errors, ErrorsAbout({"price_usd"})) # {}
        /\ ~Val(raw_report).passed_validation

\* C9 amended: a record without price_usd, next to records that carry it, is
\* reported as a warning, 'price_usd has n null values' with n the number of
\* such records, and not as a missing-field error; passed_validation stays
\* True unless a required column is absent from the whole batch.
C9_MissingPriceIsWarning ==
    OneRecordLacksPriceUsd =>
        /\ Matching(Val(raw_report).validation_errors, ErrorsAbout({"price_usd"})) = {}
        /\ Matching(Val(raw_report).warnings,
                    {Warning("null values", "price_usd",
                             Cardinality({i \in RowIndexes :
                                             IsNull(raw.rows[i].price_usd)}))}) # {}
        /\ Val(raw_report).passed_validation = (AbsentRequired(raw) = {})

\* The scenario's batch (a), (b), (c) with all its columns, validated: passed.
C9_Witness ==
    /\ OneRecordLacksPriceUsd
    /\ raw.cols = RawColumns
    /\ Len(raw.rows) = 3
    /\ \E i \in RowIndexes : raw.rows[i].year = Some(1800)
    /\ Val(raw_report).passed_validation

\* A record the validator's year and mileage rules accept.
YearAndMileageValid(r) ==
    /\ IsNull(r.year) \/ (1950 <= Val(r.year) /\ Val(r.year) <= 2026)
    /\ IsNull(r.mileage) \/ (0 <= Val(r.mileage) /\ Val(r.mileage) <= 500000)

YearAndMileageOff(r) == IntLt(r.year, 1950) /\ IntGt(r.mileage, 500000)

RangeWarnings(report, field) ==
    Matching(report.warnings,
             WarningsOf({"outside valid range"}, {field}, report.total_records))

\* Records with year below 1950 and mileage above 500000 next to valid records.
ScenarioBatch ==
    /\ HasCol(raw, "year") /\ HasCol(raw, "mileage")
    /\ \E i \in RowIndexes : YearAndMileageOff(raw.rows[i])
    /\ \E i \in RowIndexes : YearAndMileageValid(raw.rows[i])
    /\ \A i \in RowIndexes :
           YearAndMileageOff(raw.rows[i]) \/ YearAndMileageValid(raw.rows[i])

\* C10: for a batch with a record of year below 1950 and mileage above 500000
\* next to valid records, clean_data nulls that record's year and mileage and
\* validate_data on the cleaned batch emits no 'outside valid range' warning
\* for year and none for mileage.
C10_CleanThenValidate ==
    (clean_report # NULL /\ ScenarioBatch) =>
        /\ \A i \in RowIndexes :
               YearAndMileageOff(raw.rows[i]) =>
                   (IsNull(CleanDf.rows[i].year) /\ IsNull(CleanDf.rows[i].mileage))
        /\ RangeWarnings(Val(clean_report), "year") = {}
        /\ RangeWarnings(Val(clean_report), "mileage") = {}

\* The raw validation warned about year and mileage; after cleaning the
\* second validation has run.
C10_Witness ==
    /\ clean_report # NULL
    /\ ScenarioBatch
    /\ Len(raw.rows) >= 2
    /\ RangeWarnings(Val(raw_report), "year") # {}
    /\ RangeWarnings(Val(raw_report), "mileage") # {}
    /\ RangeWarnings(Val(clean_report), "year") = {}

(***************************************************************************)
(* The raw store: DatabaseManager over the vehicles table                  *)
(***************************************************************************)
\* The columns insert_vehicle names in its INSERT OR REPLACE statement.
InsertColumns == RawColumns \ {"id", "updated_at"}

\* INSERT OR REPLACE without the REPLACE resolution: the new row is added and
\* the row that holds the url stays.
insert_or_replace_keeping(rows, row) == Append(rows, row)

\* INSERT OR REPLACE INTO vehicles: url is UNIQUE, so the rows that hold the
\* new row's url are deleted before the new row is added; a null url never
\* conflicts.
insert_or_replace(rows, row) ==
    Append(SelectSeq(rows, LAMBDA r : IsNull(row.vehicle.url)
                                      \/ r.vehicle.url # row.vehicle.url),
           row)

\* DatabaseManager.insert_vehicle: True after the commit; any exception (the
\* table lacks a named column, the database cannot be written) is logged and
\* the call returns False.
insert_vehicle(store, vehicle_data, fault) ==
    IF fault \/ ~(InsertColumns \subseteq store.cols)
    THEN [ok |-> FALSE, store |-> store]
    ELSE [ok |-> TRUE,
          store |-> [store EXCEPT !.rows = insert_or_replace(@, vehicle_data)]]

\* RawDataExtractor.extract_all_vehicles: SELECT * FROM vehicles.
extract_all_vehicles(store) ==
    Frame(store.cols, [i \in 1..Len(store.rows) |-> store.rows[i].vehicle])

\* RawDataExtractor.extract_recent_vehicles: the rows whose scraped_at lies
\* within the trailing window.
extract_recent_vehicles(store) ==
    LET recent == SelectSeq(store.rows, LAMBDA r : r.recent)
    IN  Frame(store.cols, [i \in 1..Len(recent) |-> recent[i].vehicle])

(***************************************************************************)
(* The clean store: CleanDataLoader over the vehicles_clean table          *)
(***************************************************************************)
\* The columns of CREATE TABLE vehicles_clean.
CleanSchemaColumns ==
    {"id", "url", "vehicle_id", "brand", "model", "year", "price_colones",
     "price_usd", "mileage", "fuel_type", "transmission", "engine_cc",
     "color_exterior", "color_interior", "seller_phone", "seller_whatsapp",
     "description", "images", "exchange_rate", "price_flag", "vehicle_age",
     "price_per_year", "is_luxury", "scraped_at", "updated_at", "processed_at"}

\* The columns declared NOT NULL and those declared UNIQUE.
NotNullColumns == {"url", "vehicle_id", "brand", "price_colones", "price_usd"}

UniqueColumns == {"url", "vehicle_id"}

\* create_clean_schema: DROP TABLE IF EXISTS, then CREATE TABLE with its
\* constraints, committed.
create_clean_schema ==
    [constrained |-> TRUE, cols |-> CleanSchemaColumns, rows |-> <<>>]

\* An INSERT of the rows into a table that holds the given rows breaks a NOT
\* NULL or a UNIQUE constraint.
violates_constraints(held, rows) ==
    LET all == held \o rows
    IN  \/ \E i \in 1..Len(rows), c \in NotNullColumns : IsNull(rows[i][c])
        \/ \E i, j \in 1..Len(all), c \in UniqueColumns :
               i # j /\ all[i][c] = all[j][c]

\* DataFrame.to_sql(if_exists='replace'): the table is dropped and created
\* again from the frame's columns, without constraints, and the rows inserted.
to_sql_replace(table, df) ==
    [raised |-> FALSE,
     table |-> [constrained |-> FALSE, cols |-> df.cols, rows |-> df.rows]]

\* DataFrame.to_sql(if_exists='append'): the rows are inserted into the table
\* as it is, in one transaction.
to_sql_append(table, df) ==
    IF \/ ~(df.cols \subseteq table.cols)
       \/ (table.constrained /\ violates_constraints(table.rows, df.rows))
    THEN [raised |-> TRUE, table |-> table]
    ELSE [raised |-> FALSE, table |-> [table EXCEPT !.rows = @ \o df.rows]]

LoadFaults == {"none", "connect", "write", "stats"}

\* A load that neither drops the table nor replaces it: the frame's rows are
\* added to the rows the store holds.
load_clean_data_keeping(store, df, load_mode, fault) ==
    [raised |-> fault # "none",
     store |-> Some([constrained |-> FALSE, cols |-> df.cols,
                     rows |-> (IF store = NULL THEN <<>> ELSE Val(store).rows)
                              \o df.rows])]

\* CleanDataLoader.load_clean_data followed by get_data_quality_stats: the
\* schema is created anew, then the frame is written in the given mode.  A
\* fault is an sqlite error at the connection, at the write or at the
\* statistics query.
load_clean_data(store, df, load_mode, fault) ==
    IF fault = "connect" THEN [raised |-> TRUE, store |-> store]
    ELSE IF fault = "write" THEN [raised |-> TRUE, store |-> Some(create_clean_schema)]
    ELSE LET w == IF load_mode = "replace"
                  THEN to_sql_replace(create_clean_schema, df)
                  ELSE to_sql_append(create_clean_schema, df)
         IN  [raised |-> w.raised \/ fault = "stats", store |-> Some(w.table)]

(***************************************************************************)
(* VehicleETLPipeline: full and incremental runs over the two stores       *)
(***************************************************************************)
\* The vehicles the scraper hands to insert_vehicle: a first scrape of u1, a
\* re-scrape of u1 that found a zero USD price, a second url that carries the
\* vehicle id of the first, and a record with an empty id and no USD price.
VehA == [BaseRow EXCEPT !.url = Some("u1"), !.vehicle_id = Some("v1")]

VehA2 == [VehA EXCEPT !.price_usd = Some(0)]

VehB == [BaseRow EXCEPT !.url = Some("u2"), !.vehicle_id = Some("v1"),
                        !.mileage = Some(600000)]

VehC == [BaseRow EXCEPT !.url = Some("u3"), !.vehicle_id = Some(""),
                        !.price_usd = NULL]

\* recent: scraped_at lies within the window of the incremental runs.
EtlVehicles ==
    {[vehicle |-> VehA, recent |-> FALSE],
     [vehicle |-> VehA2, recent |-> TRUE],
     [vehicle |-> VehB, recent |-> TRUE],
     [vehicle |-> VehC, recent |-> TRUE]}

\* The raw tables a run may find: the table init_database creates, still
\* empty, or a vehicles table of another layout that CREATE TABLE IF NOT
\* EXISTS left as it was, with the rows it holds.
InitialRawStores ==
    {[cols |-> RawColumns, rows |-> <<>>]}
    \cup {[cols |-> RawColumns \ {c},
           rows |-> <<[vehicle |-> VehA, recent |-> TRUE],
                      [vehicle |-> VehB, recent |-> FALSE]>>] :
              c \in {"price_usd", "brand"}}

\* The order of the statements of run_full_pipeline with its validation of
\* the cleaned batch left out.
next_stage_skipping(run_mode, st) ==
    IF st = "Extract" THEN (IF run_mode = "full" THEN "ValidateRaw" ELSE "Clean")
    ELSE IF st = "ValidateRaw" THEN "Clean"
    ELSE IF st = "Clean" THEN "Load"
    ELSE IF st = "ValidateClean" THEN "Load"
    ELSE "Done"

\* The order of the statements of run_full_pipeline and of
\* run_incremental_pipeline.
next_stage(run_mode, st) ==
    IF st = "Extract" THEN (IF run_mode = "full" THEN "ValidateRaw" ELSE "Clean")
    ELSE IF st = "ValidateRaw" THEN "Clean"
    ELSE IF st = "Clean" THEN (IF run_mode = "full" THEN "ValidateClean" ELSE "Load")
    ELSE IF st = "ValidateClean" THEN "Load"
    ELSE "Done"

Terminal == {"Done", "NoData", "Failed"}

InitETL ==
    /\ CleanIdle
    /\ raw_store \in InitialRawStores
    /\ insert_result = NULL
    /\ clean_store = NULL
    /\ mode = "none"
    /\ stage = "Idle"
    /\ raw_data = NULL
    /\ validation_report = NULL
    /\ cleaned = NULL
    /\ clean_validation = NULL
    /\ stages_run = <<>>
    /\ store_before = NULL
    /\ reraised = FALSE
    /\ exit_report = NULL
    /\ ScrapeIdle
    /\ ParseIdle

\* db.insert_vehicle(vehicle_data), between two runs.
InsertVehicle ==
    /\ stage = "Idle"
    /\ \E v \in EtlVehicles, fault \in BOOLEAN :
          /\ Len(raw_store.rows) < MaxRows
          /\ LET r == insert_vehicle(raw_store, v, fault)
             IN  /\ raw_store' = r.store
                 /\ insert_result' = Some([vehicle_data |-> v, ok |-> r.ok])
    /\ UNCHANGED <<clean_store, mode, stage, raw_data, validation_report, cleaned,
                   clean_validation, stages_run, store_before, reraised>>
    /\ UNCHANGED exit_report
    /\ UNCHANGED <<clean_vars, scrape_vars, parse_vars>>

\* The caller enters run_full_pipeline / run_incremental_pipeline.
StartRun ==
    /\ stage = "Idle"
    /\ mode' \in {"full", "incremental"}
    /\ stage' = "Extract"
    /\ store_before' = clean_store
    /\ insert_result' = NULL
    /\ exit_report' = NULL
    /\ UNCHANGED <<raw_store, clean_store, raw_data, validation_report, cleaned,
                   clean_validation, stages_run, reraised>>
    /\ UNCHANGED <<clean_vars, scrape_vars, parse_vars>>

\* raw_data = self.extractor.extract_all_vehicles() / extract_recent_vehicles(hours),
\* and the early return on an empty frame.  The fault is an sqlite error.
Extract ==
    /\ stage = "Extract"
    /\ stages_run' = Append(stages_run, "Extract")
    /\ \E fault \in BOOLEAN :
          IF fault
          THEN /\ stage' = "Failed"
               /\ reraised' = TRUE
               /\ UNCHANGED raw_data
          ELSE LET df == IF mode = "full" THEN extract_all_vehicles(raw_store)
                                         ELSE extract_recent_vehicles(raw_store)
               IN  /\ raw_data' = Some(df)
                   /\ stage' = IF df.rows = <<>> THEN "NoData"
                                                ELSE next_stage(mode, "Extract")
                   /\ UNCHANGED reraised
    /\ UNCHANGED <<raw_store, insert_result, clean_store, mode, validation_report,
                   cleaned, clean_validation, store_before>>
    /\ UNCHANGED exit_report
    /\ UNCHANGED <<clean_vars, scrape_vars, parse_vars>>

\* validation_report = self.validator.validate_data(raw_data);
\* self.log_validation_report(validation_report)
ValidateRawData ==
    /\ stage = "ValidateRaw"
    /\ stages_run' = Append(stages_run, "ValidateRaw")
    /\ LET v == validate_data(Val(raw_data))
       IN  /\ raw_data' = Some(v.df)
           /\ validation_report' = Some(v.report)
    /\ stage' = next_stage(mode, "ValidateRaw")
    /\ UNCHANGED <<raw_store, insert_result, clean_store, mode, cleaned,
                   clean_validation, store_before, reraised>>
    /\ UNCHANGED exit_report
    /\ UNCHANGED <<clean_vars, scrape_vars, parse_vars>>

\* clean_data = self.cleaner.clean_data(raw_data)
CleanBatch ==
    /\ stage = "Clean"
    /\ stages_run' = Append(stages_run, "Clean")
    /\ LET c == clean_data(Val(raw_data), current_year)
       IN  IF c.raised
           THEN /\ stage' = "Failed"
                /\ reraised' = TRUE
                /\ UNCHANGED cleaned
           ELSE /\ cleaned' = Some(c.df)
                /\ stage' = next_stage(mode, "Clean")
                /\ UNCHANGED reraised
    /\ UNCHANGED <<raw_store, insert_result, clean_store, mode, raw_data,
                   validation_report, clean_validation, store_before>>
    /\ UNCHANGED exit_report
    /\ UNCHANGED <<clean_vars, scrape_vars, parse_vars>>

\* clean_validation = self.validator.validate_data(clean_data);
\* self.log_validation_report(clean_validation, "CLEAN DATA")
ValidateCleanData ==
    /\ stage = "ValidateClean"
    /\ stages_run' = Append(stages_run, "ValidateClean")
    /\ LET v == validate_data(Val(cleaned))
       IN  /\ cleaned' = Some(v.df)
           /\ clean_validation' = Some(v.report)
    /\ stage' = next_stage(mode, "ValidateClean")
    /\ UNCHANGED <<raw_store, insert_result, clean_store, mode, raw_data,
                   validation_report, store_before, reraised>>
    /\ UNCHANGED exit_report
    /\ UNCHANGED <<clean_vars, scrape_vars, parse_vars>>

\* The columns the queries of get_data_quality_stats name.
StatsColumns ==
    {"model", "year", "mileage", "fuel_type", "engine_cc", "price_flag", "brand"}

\* get_data_quality_stats raises (sqlite: no such column) when vehicles_clean
\* lacks a column one of its queries names.
get_data_quality_stats_raises(table) == ~(StatsColumns \subseteq table.cols)

\* self.loader.load_clean_data(clean_data, mode='replace' / 'append') and the
\* quality report that follows it in a full run.
Load ==
    /\ stage = "Load"
    /\ stages_run' = Append(stages_run, "Load")
    /\ \E fault \in LoadFaults :
          /\ (fault = "stats" => mode = "full")
          /\ LET r == load_clean_data(clean_store, Val(cleaned),
                                      IF mode = "full" THEN "replace" ELSE "append",
                                      fault)
                 raised == \/ r.raised
                           \/ /\ mode = "full"
                              /\ get_data_quality_stats_raises(Val(r.store))
             IN  /\ clean_store' = r.store
                 /\ stage' = IF raised THEN "Failed" ELSE next_stage(mode, "Load")
                 /\ reraised' = raised
    /\ UNCHANGED <<raw_store, insert_result, mode, raw_data, validation_report,
                   cleaned, clean_validation, store_before>>
    /\ UNCHANGED exit_report
    /\ UNCHANGED <<clean_vars, scrape_vars, parse_vars>>

\* What the pipeline method gave its caller: an exception, the statistics
\* (the last statement of a completed full run), or None (the bare return of
\* an empty extract, and every incremental run).
pipeline_result(run_mode, st) ==
    IF st = "Failed" THEN "raised"
    ELSE IF run_mode = "full" /\ st = "Done" THEN "stats"
    ELSE "None"

Exit(status, printed) == [status |-> status, printed |-> printed]

\* main of run_etl.py: stats['total_records'] of None raises TypeError after
\* the success line is printed, and the handler catches it as any exception.
run_etl_main(result) ==
    IF result = "raised" THEN Exit(1, <<"ETL Pipeline failed">>)
    ELSE IF result = "None"
    THEN Exit(1, <<"ETL Pipeline Completed Successfully!", "ETL Pipeline failed">>)
    ELSE Exit(0, <<"ETL Pipeline Completed Successfully!">>)

\* The etl command of main.py: it has no handler, so an exception of the
\* pipeline, or of stats['total_records'] on None in full mode, ends the
\* process with a traceback.
main_etl(run_mode, result) ==
    IF result = "raised" THEN Exit(1, <<"Traceback">>)
    ELSE IF run_mode = "full"
    THEN IF result = "None" THEN Exit(1, <<"Traceback">>)
         ELSE Exit(0, <<"Processed records">>)
    ELSE Exit(0, <<>>)

\* run_etl.py always makes a full run; main.py makes either.
Commands == {"run_etl.py", "main.py etl"}

\* The run has returned or raised to its caller, the command, which reports
\* and ends; the locals of the run are gone.
Return ==
    /\ stage \in Terminal
    /\ \E command \in Commands :
          /\ (command = "run_etl.py" => mode = "full")
          /\ LET result == pipeline_result(mode, stage)
             IN  exit_report' =
                     Some([command |-> command,
                           mode |-> mode,
                           ended |-> stage,
                           exit |-> IF command = "run_etl.py"
                                    THEN run_etl_main(result)
                                    ELSE main_etl(mode, result)])
    /\ stage' = "Idle"
    /\ mode' = "none"
    /\ raw_data' = NULL
    /\ validation_report' = NULL
    /\ cleaned' = NULL
    /\ clean_validation' = NULL
    /\ stages_run' = <<>>
    /\ store_before' = NULL
    /\ reraised' = FALSE
    /\ UNCHANGED <<raw_store, insert_result, clean_store>>
    /\ UNCHANGED <<clean_vars, scrape_vars, parse_vars>>

NextETL ==
    \/ InsertVehicle
    \/ StartRun
    \/ Extract
    \/ ValidateRawData
    \/ CleanBatch
    \/ ValidateCleanData
    \/ Load
    \/ Return

SpecETL == InitETL /\ [][NextETL]_vars

(***************************************************************************)
(* Properties of the runs and of the two stores                            *)
(***************************************************************************)
Ran(st) == \E i \in 1..Len(stages_run) : stages_run[i] = st

RawValidationFailed ==
    /\ mode = "full"
    /\ validation_report # NULL
    /\ ~Val(validation_report).passed_validation

\* C11: in a full run whose raw-data validation report failed (a required
\* column is missing from the batch), the orchestrator has raised to its
\* caller: the run is in Failed, neither Clean nor Load is executed, and the
\* clean store stays as it was when the run began.
C11_FailedValidationAborts ==
    RawValidationFailed =>
        /\ stage = "Failed"
        /\ reraised
        /\ ~Ran("Clean")
        /\ ~Ran("Load")
        /\ clean_store = store_before

FullOrder == <<"Extract", "ValidateRaw", "Clean", "ValidateClean", "Load", "Done">>

IsPrefix(a, b) == Len(a) <= Len(b) /\ \A i \in 1..Len(a) : a[i] = b[i]

\* The stages executed so far are the first ones of the fixed order, and the
\* run stands at the next one, at an early end, or has failed and re-raised.
FullRunInOrder ==
    mode = "full" =>
        /\ IsPrefix(stages_run, SubSeq(FullOrder, 1, 5))
        /\ stage \in {FullOrder[Len(stages_run) + 1], "NoData", "Failed"}
        /\ (stage = "NoData" => stages_run = <<"Extract">>)
        /\ (Ran("Load") => clean_validation # NULL)
        /\ (reraised <=> stage = "Failed")

\* C12: a full run executes Extract, ValidateRaw, Clean, ValidateClean, Load
\* in that order, each at most once and none skipped before Done; a run that
\* failed has re-raised, and executes no further stage.
C12_StagesInOrder ==
    [][ /\ FullRunInOrder'
        /\ (stage = "Failed" => (stage' = "Idle" /\ stages_run' = <<>>)) ]_vars

C12_Witness ==
    /\ mode = "full"
    /\ stage = "Done"
    /\ stages_run = SubSeq(FullOrder, 1, 5)
    /\ clean_store # NULL

StoreRows(store) == IF store = NULL THEN <<>> ELSE Val(store).rows

Holds(rows, r) == \E i \in 1..Len(rows) : rows[i] = r

IncrementalDone == mode = "incremental" /\ stage = "Done"

\* C13: after a successful incremental run the clean store holds every row it
\* held before the run and, after them, the cleaned rows of the run's batch.
C13_IncrementalAppends ==
    IncrementalDone =>
        /\ \A i \in 1..Len(StoreRows(store_before)) :
               Holds(StoreRows(clean_store), StoreRows(store_before)[i])
        /\ StoreRows(clean_store) = StoreRows(store_before) \o Val(cleaned).rows

FullDone == mode = "full" /\ stage = "Done"

\* C14: after a successful full run the clean store holds exactly the cleaned
\* batch of the run, which has one row for each row of the raw store, in the
\* same position and with the same url, and nothing else.
C14_FullReplaces ==
    FullDone =>
        /\ StoreRows(clean_store) = Val(cleaned).rows
        /\ Len(StoreRows(clean_store)) = Len(raw_store.rows)
        /\ \A i \in 1..Len(raw_store.rows) :
               StoreRows(clean_store)[i].url = raw_store.rows[i].vehicle.url

\* A full run has replaced a clean store that held a row the raw store no
\* longer has in that form.
C14_Witness ==
    /\ FullDone
    /\ \E i \in 1..Len(StoreRows(store_before)) :
           ~Holds(StoreRows(clean_store), StoreRows(store_before)[i])
    /\ Len(StoreRows(clean_store)) >= 2

UniqueIn(rows, col) ==
    \A i, j \in 1..Len(rows) : i # j => rows[i][col] # rows[j][col]

\* C15: after a successful full run no two rows of the clean store share a url
\* and no two rows share a vehicle_id.
C15_CleanStoreKeysUnique ==
    FullDone =>
        /\ UniqueIn(StoreRows(clean_store), "url")
        /\ UniqueIn(StoreRows(clean_store), "vehicle_id")

\* C16: after any successful run, every row of the clean store has a
\* price_usd above zero and a price_colones above zero.
C16_CleanPricesPositive ==
    stage = "Done" =>
        \A i \in 1..Len(StoreRows(clean_store)) :
            /\ IntGt(StoreRows(clean_store)[i].price_usd, 0)
            /\ IntGt(StoreRows(clean_store)[i].price_colones, 0)

RowsOfUrl(rows, url) == SelectSeq(rows, LAMBDA r : r.vehicle.url = url)

RowsOfOtherUrls(rows, url) == SelectSeq(rows, LAMBDA r : r.vehicle.url # url)

\* What one insert_vehicle call that returned the given result has done to
\* the rows of the vehicles table.
UpsertEffect(before, after, result) ==
    IF result.ok
    THEN /\ \A i, j \in 1..Len(after) :
                i # j => after[i].vehicle.url # after[j].vehicle.url
         /\ RowsOfUrl(after, result.vehicle_data.vehicle.url) = <<result.vehicle_data>>
         /\ RowsOfOtherUrls(after, result.vehicle_data.vehicle.url)
                = RowsOfOtherUrls(before, result.vehicle_data.vehicle.url)
    ELSE after = before

\* C19: every insert_vehicle call that returns True leaves at most one row per
\* url, the row of the inserted url carrying the values just inserted, and the
\* rows of the other urls as they were; a call that returns False leaves the
\* table unchanged; nothing else changes the table.
C19_UpsertByUrl ==
    [][ IF insert_result' # NULL /\ insert_result' # insert_result
        THEN UpsertEffect(raw_store.rows, raw_store'.rows, Val(insert_result'))
        ELSE raw_store' = raw_store
            \/ (insert_result' # NULL
                /\ UpsertEffect(raw_store.rows, raw_store'.rows, Val(insert_result'))) ]_vars

\* The re-scrape of u1 has replaced the row of u1 that an earlier full run
\* had loaded, next to the row of u2.
C19_Witness ==
    /\ insert_result = Some([vehicle_data |-> [vehicle |-> VehA2, recent |-> TRUE],
                             ok |-> TRUE])
    /\ Len(raw_store.rows) = 2
    /\ raw_store.rows[1].vehicle = VehB
    /\ raw_store.rows[2].vehicle = VehA2
    /\ Len(StoreRows(clean_store)) = 2
    /\ StoreRows(clean_store)[1].url = Some("u1")
    /\ StoreRows(clean_store)[1].price_usd = Some(20000)

(***************************************************************************)
(* CrautosScraper: the listing traversal and the loop over the detail      *)
(* links.  A link is a number; a site is the sequence of its listing       *)
(* pages, each the sequence of the detail anchors it shows (an anchor may  *)
(* be repeated); a page beyond the last shows none.                        *)
(***************************************************************************)
max_pages == 50

MaxSitePages == 2

PageContents == {<<>>, <<1>>, <<1, 2, 1>>, <<2, 3>>}

SmallSites == UNION {[1..n -> PageContents] : n \in 0..MaxSitePages}

\* A site with more listing pages than the ceiling, each showing a new link.
BigSite == [p \in 1..(max_pages + 1) |-> <<p>>]

\* LinkExtractor.extract_vehicle_links: list(set(links)) of the page's anchors.
extract_vehicle_links(anchors) == {anchors[i] : i \in 1..Len(anchors)}

PageLinks(st, p) == IF p \in 1..Len(st) THEN extract_vehicle_links(st[p]) ELSE {}

ListOf(S) ==
    CHOOSE f \in [1..Cardinality(S) -> S] :
        \A i, j \in 1..Cardinality(S) : i < j => f[i] < f[j]

Range(f) == {f[i] : i \in 1..Len(f)}

\* The orders list(set(all_links)) may give.
Orderings(S) ==
    {f \in [1..Cardinality(S) -> S] :
        \A i, j \in 1..Cardinality(S) : i # j => f[i] # f[j]}

\* new_links = [link for link in links if link not in all_links]
new_links(links, all) == ListOf(links \ Range(all))

\* A traversal without the safety limit.
loop_guard_unbounded(p) == TRUE

\* while page <= max_pages
loop_guard(p) == p <= max_pages

\* What the requests of one listing page may give: the page, an exception, or
\* (after page 1) a status other than 200 followed by a second request with
\* the other parameter, which gives the page or fails.
ListingOutcomes(p) ==
    IF p = 1 THEN {"ok", "error"}
             ELSE {"ok", "fallback_ok", "error", "fallback_error"}

RequestsOf(outcome) == IF outcome \in {"fallback_ok", "fallback_error"} THEN 2 ELSE 1

DetailOutcomes == {"ok", "fetch_error", "parse_error", "save_error"}

\* A detail fetch that is tried again after it failed.
fetches_with_retry(link, outcome) ==
    IF outcome = "fetch_error" THEN <<link, link>> ELSE <<link>>

\* response = self.session.get(url): one request for the link, whatever
\* comes of it.
fetches_of(link, outcome) == <<link>>

\* The handler of the loop over the links counts an error only for an
\* exception that reaches it: _scrape_vehicle_detail catches its own and
\* returns None.
counted_errors(outcome) == IF outcome = "save_error" THEN 1 ELSE 0

\* time.sleep(1) between listing pages, time.sleep(2) between detail pages.
page_sleep == 1

detail_sleep == 2

\* A loop over the links that does not sleep.
detail_delay_none(outcome) == 0

\* time.sleep(2) is the last statement of the try block of the loop over the
\* links: an exception of save_raw_data skips it.
detail_delay(outcome) == IF outcome = "save_error" THEN 0 ELSE detail_sleep

\* Of n requests issued one after the other, those that follow a request
\* without a delay in between.
undelayed(last, n) == (n - 1) + (IF last = "request" THEN 1 ELSE 0)

\* BaseScraper.save_raw_data: the file is named after the second of the
\* clock and opened with 'w', which replaces a file of that name.
save_raw_data(written, now, link) ==
    {f \in written : f.name # now} \cup {[name |-> now, link |-> link]}

InitScrape ==
    /\ CleanIdle
    /\ EtlIdle
    /\ ParseIdle
    /\ site \in SmallSites
    /\ scrape_pc = "Idle"
    /\ page = 1
    /\ all_links = <<>>
    /\ requests = 0
    /\ requested = 0
    /\ response = "none"
    /\ vehicle_links = <<>>
    /\ processed = 0
    /\ fetched = <<>>
    /\ saved = <<>>
    /\ vehicles_scraped = 0
    /\ errors = 0
    /\ summary = NULL
    /\ last_event = "none"
    /\ clock = 0
    /\ back_to_back = 0
    /\ files = {}

\* The traversal alone, also over a site larger than the ceiling.
InitLinks ==
    /\ CleanIdle
    /\ EtlIdle
    /\ ParseIdle
    /\ site \in SmallSites \cup {BigSite}
    /\ scrape_pc = "Idle"
    /\ page = 1
    /\ all_links = <<>>
    /\ requests = 0
    /\ requested = 0
    /\ response = "none"
    /\ vehicle_links = <<>>
    /\ processed = 0
    /\ fetched = <<>>
    /\ saved = <<>>
    /\ vehicles_scraped = 0
    /\ errors = 0
    /\ summary = NULL
    /\ last_event = "none"
    /\ clock = 0
    /\ back_to_back = 0
    /\ files = {}

\* scrape() is entered and calls _get_all_vehicle_links(): all_links = [],
\* page = 1.
StartScrape ==
    /\ scrape_pc = "Idle"
    /\ scrape_pc' = IF loop_guard(1) THEN "listing" ELSE "links_done"
    /\ UNCHANGED <<site, page, all_links, requests, requested, response,
                   vehicle_links, processed, fetched, saved, vehicles_scraped,
                   errors, summary, pace_vars>>
    /\ UNCHANGED <<clean_vars, etl_vars, parse_vars>>

\* One iteration of the while loop of _get_all_vehicle_links.
ListPage ==
    /\ scrape_pc = "listing"
    /\ \E outcome \in ListingOutcomes(page) :
          LET got == outcome \in {"ok", "fallback_ok"}
              links == PageLinks(site, page)
              new == new_links(links, all_links)
              stop == ~got \/ links = {} \/ (new = <<>> /\ page > 1)
          IN  /\ requests' = requests + RequestsOf(outcome)
              /\ requested' = page
              /\ response' = IF got THEN "ok" ELSE "error"
              /\ back_to_back' = back_to_back + undelayed(last_event, RequestsOf(outcome))
              /\ IF stop
                 THEN /\ scrape_pc' = "links_done"
                      /\ last_event' = "request"
                      /\ UNCHANGED <<page, all_links, clock>>
                 ELSE /\ all_links' = all_links \o new
                      /\ page' = page + 1
                      /\ last_event' = "sleep"
                      /\ clock' = clock + page_sleep
                      /\ scrape_pc' = IF loop_guard(page + 1) THEN "listing"
                                                              ELSE "links_done"
    /\ UNCHANGED <<site, vehicle_links, processed, fetched, saved,
                   vehicles_scraped, errors, summary, files>>
    /\ UNCHANGED <<clean_vars, etl_vars, parse_vars>>

\* return list(set(all_links)), received by scrape().
ReturnLinks ==
    /\ scrape_pc = "links_done"
    /\ vehicle_links' \in Orderings(Range(all_links))
    /\ scrape_pc' = "details"
    /\ UNCHANGED <<site, page, all_links, requests, requested, response, processed,
                   fetched, saved, vehicles_scraped, errors, summary, pace_vars>>
    /\ UNCHANGED <<clean_vars, etl_vars, parse_vars>>

\* One iteration of the loop over vehicle_links.
ScrapeDetail ==
    /\ scrape_pc = "details"
    /\ processed < Len(vehicle_links)
    /\ \E outcome \in DetailOutcomes :
          LET link == vehicle_links[processed + 1]
          IN  /\ fetched' = fetched \o fetches_of(link, outcome)
              /\ saved' = IF outcome = "ok" THEN Append(saved, link) ELSE saved
              /\ files' = IF outcome = "ok" THEN save_raw_data(files, clock, link)
                                            ELSE files
              /\ clock' = clock + detail_delay(outcome)
              /\ last_event' = IF detail_delay(outcome) > 0 THEN "sleep" ELSE "request"
              /\ vehicles_scraped' = vehicles_scraped + (IF outcome = "ok" THEN 1 ELSE 0)
              /\ errors' = errors + counted_errors(outcome)
    /\ requests' = requests + 1
    /\ back_to_back' = back_to_back + undelayed(last_event, 1)
    /\ processed' = processed + 1
    /\ UNCHANGED <<site, scrape_pc, page, all_links, requested, response,
                   vehicle_links, summary>>
    /\ UNCHANGED <<clean_vars, etl_vars, parse_vars>>

\* The loop is over: scrape() returns its summary.
FinishScrape ==
    /\ scrape_pc = "details"
    /\ processed = Len(vehicle_links)
    /\ summary' = Some([vehicles_scraped |-> vehicles_scraped, errors |-> errors,
                        status |-> "completed"])
    /\ scrape_pc' = "returned"
    /\ UNCHANGED <<site, page, all_links, requests, requested, response,
                   vehicle_links, processed, fetched, saved, vehicles_scraped,
                   errors, pace_vars>>
    /\ UNCHANGED <<clean_vars, etl_vars, parse_vars>>

NextScrape == StartScrape \/ ListPage \/ ReturnLinks \/ ScrapeDetail \/ FinishScrape

SpecScrape == InitScrape /\ [][NextScrape]_vars

NextLinks == StartScrape \/ ListPage

SpecLinks == InitLinks /\ [][NextLinks]_vars

(***************************************************************************)
(* Properties of the scrape run                                            *)
(***************************************************************************)
\* C17: every detail link that has been processed has either been counted as
\* scraped or as an error, so that at the end of the run the summary's
\* vehicles_scraped plus errors is the number of detail links.
C17_EveryFailureCounted ==
    /\ vehicles_scraped + errors = processed
    /\ summary # NULL =>
           Val(summary).vehicles_scraped + Val(summary).errors = Len(vehicle_links)

ListingUnreachable == requested = 1 /\ response = "error"

\* C18: when the fetch of listing page 1 failed, no detail page is fetched and
\* the summary the run ends with counts the failure.
C18_UnreachableListingAborts ==
    ListingUnreachable =>
        /\ fetched = <<>>
        /\ summary # NULL => Val(summary).errors >= 1

\* C20: every iteration of the traversal requests the page that follows the
\* last one requested, starting at 1 and never above max_pages; it goes on to
\* the next page only when the page brought at least one new link, and stops
\* when the request failed or the page brought none; the page number never
\* passes max_pages + 1, so the traversal ends.
C20_PaginationBounded ==
    [][ scrape_pc = "listing" =>
          /\ requested' = requested + 1
          /\ requested' = page
          /\ requested' <= max_pages
          /\ page' <= max_pages + 1
          /\ IF response' = "ok" /\ PageLinks(site, page) \ Range(all_links) # {}
             THEN /\ page' = page + 1
                  /\ Range(all_links') = Range(all_links) \cup PageLinks(site, page)
                  /\ scrape_pc' = IF page' <= max_pages THEN "listing" ELSE "links_done"
             ELSE /\ scrape_pc' = "links_done"
                  /\ page' = page
                  /\ all_links' = all_links ]_vars

\* The ceiling has ended a traversal whose every page brought a new link.
C20_Witness ==
    /\ scrape_pc = "links_done"
    /\ requested = max_pages
    /\ response = "ok"
    /\ Len(all_links) = max_pages
    /\ page = max_pages + 1

\* C21: within one run no detail link is fetched twice, whatever the listing
\* pages repeat and whatever the fetches give.
C21_EachLinkFetchedOnce ==
    /\ \A i, j \in 1..Len(fetched) : i # j => fetched[i] # fetched[j]
    /\ Len(fetched) = processed
    /\ scrape_pc \in {"details", "returned"} =>
           Range(vehicle_links) = UNION {PageLinks(site, p) : p \in 1..(page - 1)}

\* A run over a site that repeats a link within a page and across pages has
\* fetched its three links, one of them without success.
C21_Witness ==
    /\ scrape_pc = "returned"
    /\ site = <<<<1, 2, 1>>, <<2, 3>>>>
    /\ Len(fetched) = 3
    /\ Val(summary).vehicles_scraped + Val(summary).errors = 2

\* C22: no request of a scrape run is issued right after another request:
\* the scraper has slept in between.
C22_DelayBetweenRequests == back_to_back = 0

One(chars) == [q |-> "one", chars |-> chars]
Opt(chars) == [q |-> "opt", chars |-> chars]
Star(chars) == [q |-> "star", chars |-> chars]
Plus(chars) == [q |-> "plus", chars |-> chars]
WordBoundary == [q |-> "bound", chars |-> {}]

\* \w of re: letters, digits and the underscore.
IsWordChar(c) == c \in Digits \/ IsLowerChar(c) \/ IsUpperChar(c) \/ c = "_"

\* \b of re at position pos (the index of the next character).
AtWordBoundary(t, pos) ==
    LET before == pos > 1 /\ IsWordChar(t[pos - 1])
        after == pos <= Len(t) /\ IsWordChar(t[pos])
    IN  before # after

\* The number of characters of t from pos on that are in chars.
RECURSIVE RunLength(_, _, _)
RunLength(t, pos, chars) ==
    IF pos <= Len(t) /\ t[pos] \in chars
    THEN 1 + RunLength(t, pos + 1, chars)
    ELSE 0

MinCount(item) == IF item.q \in {"one", "plus"} THEN 1 ELSE 0

MaxCount(item, run) ==
    IF item.q \in {"one", "opt"} THEN (IF run > 0 THEN 1 ELSE 0) ELSE run

\* The match of items k.. of pat at pos that re's backtracking finds first:
\* every quantifier is greedy, so an item takes the most characters with which
\* the rest of the pattern still matches.  NULL when there is none, else the
\* end position of each item.
RECURSIVE MatchAt(_, _, _, _)
MatchAt(pat, k, t, pos) ==
    IF k > Len(pat) THEN Some(<<>>)
    ELSE IF pat[k].q = "bound"
    THEN IF AtWordBoundary(t, pos) /\ MatchAt(pat, k + 1, t, pos) # NULL
         THEN Some(<<pos>> \o Val(MatchAt(pat, k + 1, t, pos)))
         ELSE NULL
    ELSE LET run == RunLength(t, pos, pat[k].chars)
             ns == {n \in MinCount(pat[k])..MaxCount(pat[k], run) :
                        MatchAt(pat, k + 1, t, pos + n) # NULL}
         IN  IF ns = {} THEN NULL
             ELSE LET n == CHOOSE m \in ns : \A o \in ns : o <= m
                  IN  Some(<<pos + n>> \o Val(MatchAt(pat, k + 1, t, pos + n)))

\* re.search from position from: the leftmost start at which pat matches.
\* NULL, or the start and the item ends of the match.
re_search_from(pat, t, from) ==
    LET starts == {st \in from..(Len(t) + 1) : MatchAt(pat, 1, t, st) # NULL}
    IN  IF starts = {} THEN NULL
        ELSE LET st == CHOOSE a \in starts : \A b \in starts : a <= b
             IN  Some([start |-> st, ends |-> Val(MatchAt(pat, 1, t, st))])

re_search(pat, t) == re_search_from(pat, t, 1)

\* match.group(1) when the group is the item g of the pattern.
group(t, match, g) ==
    LET from == IF g = 1 THEN match.start ELSE match.ends[g - 1]
    IN  SubSeq(t, from, match.ends[g] - 1)

\* match.group(0).
whole_match(t, match) ==
    SubSeq(t, match.start, match.ends[Len(match.ends)] - 1)

\* re.findall of a pattern that matches no empty string: the successive
\* non-overlapping matches, left to right.
RECURSIVE re_findall_from(_, _, _)
re_findall_from(pat, t, from) ==
    LET match == re_search_from(pat, t, from)
    IN  IF match = NULL THEN {}
        ELSE {whole_match(t, Val(match))}
                 \cup re_findall_from(pat, t, Val(match).ends[Len(pat)])

re_findall(pat, t) == re_findall_from(pat, t, 1)

DigitList == <<"0", "1", "2", "3", "4", "5", "6", "7", "8", "9">>

\* int() of a string of decimal digits; int('') raises ValueError, which is
\* for the caller to tell apart.
RECURSIVE int_of_digits(_)
int_of_digits(s) ==
    IF s = <<>> THEN 0
    ELSE 10 * int_of_digits(SubSeq(s, 1, Len(s) - 1)) + IndexIn(s[Len(s)], DigitList) - 1

\* What a call gives: the value it returns (None is NULL), or raised.
Returned(v) == [raised |-> FALSE, value |-> v]
Raised == [raised |-> TRUE, value |-> NULL]

int(s) == IF s = <<>> THEN Raised ELSE Returned(Some(int_of_digits(s)))

\* int(...) * k.
times(r, k) == IF r.raised THEN r ELSE Returned(Some(Val(r.value) * k))

PriceChars == Digits \cup {",", "."}

\* extract_price_colones and extract_price_usd differ in the currency sign.
extract_price(sign, t) ==
    LET searched == str_replace(t, <<",">>, <<>>)
        pat == <<One({sign}), Star(Whitespace), Plus(PriceChars)>>
        match == re_search(pat, searched)
    IN  IF match = NULL THEN Returned(NULL)
        ELSE int(str_replace(str_replace(group(searched, Val(match), 3),
                                         <<".">>, <<>>), <<",">>, <<>>))

extract_price_colones(t) == extract_price("cent_sign", t)

extract_price_usd(t) == extract_price("$", t)

km_factor == 1000

mil_factor == 1000

MileageKm ==
    <<Plus(Digits), Star(Whitespace \cup {","}), Opt({"k"}), Opt({"m"}),
      Opt({"s"}), Star(Whitespace), One({"k"}), One({"m"})>>

MileageMil ==
    <<Plus(Digits), Star(Whitespace \cup {","}), One({"m"}), One({"i"}), One({"l"})>>

extract_mileage(t) ==
    LET low == lower(t)
        km == re_search(MileageKm, low)
        mil == re_search(MileageMil, low)
    IN  IF km # NULL THEN times(int(group(low, Val(km), 1)), km_factor)
        ELSE IF mil # NULL THEN times(int(group(low, Val(mil), 1)), mil_factor)
        ELSE Returned(NULL)

litre_factor == 1000

EngineCc == <<Plus(Digits), Star(Whitespace), One({"c"}), One({"c", "|", "m"})>>

EngineLitres == <<Plus(Digits), Star(Whitespace), One({"l"})>>

extract_engine_cc(t) ==
    LET low == lower(t)
        cc == re_search(EngineCc, low)
        litres == re_search(EngineLitres, low)
    IN  IF cc # NULL THEN int(group(low, Val(cc), 1))
        ELSE IF litres # NULL THEN times(int(group(low, Val(litres), 1)), litre_factor)
        ELSE Returned(NULL)

Digit4 == <<One(Digits), One(Digits), One(Digits), One(Digits)>>

PhoneDashed == <<WordBoundary>> \o Digit4 \o <<One({"-"})>> \o Digit4 \o <<WordBoundary>>

PhoneEight == <<WordBoundary>> \o Digit4 \o Digit4 \o <<WordBoundary>>

PhoneIntl ==
    <<One({"+"}), One({"5"}), One({"0"}), One({"6"}), Star(Whitespace)>> \o Digit4 \o Digit4

\* list(set(phones)): the distinct matches of the three patterns.
extract_phone_numbers(t) ==
    Returned(re_findall(PhoneDashed, t) \cup re_findall(PhoneEight, t)
                 \cup re_findall(PhoneIntl, t))


\* The texts the extractors are called with: every text of at most MaxTextLen
\* characters of TextChars, and texts as the listing pages carry them.
MaxTextLen == 3

TextChars == {"5", "0", " ", ",", ".", "k", "m", "$", "cent_sign"}

ShortTexts == UNION {[1..n -> TextChars] : n \in 0..MaxTextLen}

PageTexts ==
    { <<"8", "5", "0", "0", "0", " ", "k", "m">>,
      <<"8", "5", ",", "0", "0", "0", " ", "k", "m">>,
      <<"5", "0", " ", "K", "M">>,
      <<"5", "0", " ", "k", "m", "s", " ", "k", "m">>,
      <<"1", "2", "0", " ", "m", "i", "l">>,
      <<"1", "2", "0", " ", "M", "i", "l", " ", "k", "m">>,
      <<"n", "u", "e", "v", "o">>,
      <<"cent_sign", "5", ".", "0", "0", "0", ".", "0", "0", "0">>,
      <<"cent_sign", " ", "5", ",", "0", "0", "0">>,
      <<"cent_sign", " ", ".">>,
      <<"$", "9", ",", "5", "0", "0">>,
      <<"$", " ", "9", "5", "0", "0", " ", "$", "1">>,
      <<"$", ".", ".">>,
      <<"1", "8", "0", "0", " ", "c", "c">>,
      <<"1", "8", "0", "0", "C", "C">>,
      <<"1", "8", "0", "0", " ", "c", "m">>,
      <<"2", " ", "L">>,
      <<"2", ".", "0", " ", "l">>,
      <<"8", "8", "8", "8", "-", "1", "2", "3", "4">>,
      <<"8", "8", "8", "8", "1", "2", "3", "4">>,
      <<"+", "5", "0", "6", " ", "8", "8", "8", "8", "1", "2", "3", "4">>,
      <<"8", "8", "8", "8", "-", "1", "2", "3", "4", " ", "8", "8", "8", "8", "-", "1", "2", "3", "4">>,
      <<"8", "8", "8", "8", "-", "1", "2", "3", "4", " ", "7", "7", "7", "7", "1", "2", "3", "4">>,
      <<"8", "8", "8", "8", "1", "2", "3", "4", "5">>,
      <<"8", "8", "8", "8", "-", "1", "2", "3", "4", "5">> }

Texts == ShortTexts \cup PageTexts

Extractors ==
    {"extract_price_colones", "extract_price_usd", "extract_mileage",
     "extract_engine_cc", "extract_phone_numbers"}

InitParse ==
    /\ CleanIdle
    /\ EtlIdle
    /\ ScrapeIdle
    /\ parse_text \in Texts
    /\ parse_result = NULL

Call(extractor, result) ==
    /\ parse_result = NULL
    /\ parse_result' = Some([extractor |-> extractor, result |-> result])
    /\ UNCHANGED <<parse_text, clean_vars, etl_vars, scrape_vars>>

ExtractPriceColones == Call("extract_price_colones", extract_price_colones(parse_text))

ExtractPriceUsd == Call("extract_price_usd", extract_price_usd(parse_text))

ExtractMileage == Call("extract_mileage", extract_mileage(parse_text))

ExtractEngineCc == Call("extract_engine_cc", extract_engine_cc(parse_text))

ExtractPhoneNumbers == Call("extract_phone_numbers", extract_phone_numbers(parse_text))

NextParse ==
    \/ ExtractPriceColones
    \/ ExtractPriceUsd
    \/ ExtractMileage
    \/ ExtractEngineCc
    \/ ExtractPhoneNumbers

SpecParse == InitParse /\ [][NextParse]_vars

\* The call of extractor that has been made, if it is the one.
Called(extractor) == parse_result # NULL /\ Val(parse_result).extractor = extractor

Result == Val(parse_result).result


IsDigits(s) == s # <<>> /\ \A i \in 1..Len(s) : s[i] \in Digits

Contains(s, w) == \E i \in 1..(Len(s) - Len(w) + 1) : SubSeq(s, i, i + Len(w) - 1) = w

\* t is a number followed by the unit, in any letter case, with or without
\* blanks between them; the number is its first n characters.
NumberThenUnit(t, n, unit) ==
    /\ IsDigits(SubSeq(t, 1, n))
    /\ strip(lower(SubSeq(t, n + 1, Len(t)))) = unit

\* C24: extract_mileage gives N for a number N followed by 'km', N x 1000 for
\* a number N followed by 'mil', and nothing for a text with neither unit.
C24_MileageForms ==
    Called("extract_mileage") =>
        /\ \A n \in 1..Len(parse_text) :
               /\ NumberThenUnit(parse_text, n, <<"k", "m">>) =>
                      Result = Returned(Some(int_of_digits(SubSeq(parse_text, 1, n))))
               /\ NumberThenUnit(parse_text, n, <<"m", "i", "l">>) =>
                      Result = Returned(Some(int_of_digits(SubSeq(parse_text, 1, n)) * 1000))
        /\ (~Contains(lower(parse_text), <<"k", "m">>)
               /\ ~Contains(lower(parse_text), <<"m", "i", "l">>)) =>
               Result = Returned(NULL)

\* C25: no call of a field extractor raises, whatever the text.
C25_ExtractorsNeverRaise == parse_result # NULL => ~Result.raised


\* ---------------------------------------------------------------------------
\* Further properties of the cleaner
\* ---------------------------------------------------------------------------

\* C26: clean_data completes without raising for a batch having any subset of
\* the raw columns, a model column without a brand column among them.
C26_EveryStepSkippable == clean # NULL => ~Val(clean).raised

\* C27: for every record leaving the cleaner with a year, vehicle_age + 1 is
\* different from 0, and price_per_year is a finite number whenever price_usd
\* is present.
C27_DivisorNeverZero ==
    (Cleaned /\ HasCol(raw, "year")) =>
        \A i \in RowIndexes :
            LET o == CleanDf.rows[i]
            IN  ~IsNull(o.year) =>
                    /\ ~IsNull(o.vehicle_age)
                    /\ Val(o.vehicle_age) + 1 # 0
                    /\ (HasCol(raw, "price_usd") /\ ~IsNull(o.price_usd)) =>
                           (~IsNull(o.price_per_year)
                                /\ Val(o.price_per_year).kind = "fin")


\* ---------------------------------------------------------------------------
\* Further properties of the ETL runs and of the command
\* ---------------------------------------------------------------------------

IncrementalOrder == <<"Extract", "Clean", "Load">>

LacksRequiredColumn(df) ==
    \E i \in 1..Len(required_fields) : required_fields[i] \notin df.cols

\* C28: an incremental run executes Extract, Clean, Load and no validation
\* stage, so its batch is cleaned and handed to Load also when it lacks a
\* required column; a full run validates before Clean and before Load.
C28_IncrementalNeverValidates ==
    /\ mode = "incremental" =>
           /\ IsPrefix(stages_run, IncrementalOrder)
           /\ validation_report = NULL
           /\ clean_validation = NULL
           /\ (Ran("Clean") /\ LacksRequiredColumn(Val(raw_data))) =>
                  (cleaned # NULL /\ (stage = "Load" \/ Ran("Load")))
    /\ mode = "full" =>
           /\ Ran("Clean") => (Ran("ValidateRaw") /\ validation_report # NULL)
           /\ Ran("Load") => (Ran("ValidateClean") /\ clean_validation # NULL)

\* C29: when a run has ended in Failed, the clean store holds exactly the rows
\* it held when the run started.
C29_FailedRunLeavesCleanStore ==
    stage = "Failed" => StoreRows(clean_store) = StoreRows(store_before)

\* C30: the command ends with a status other than 0 exactly when the pipeline
\* raised, with the failure message; a full run over an empty raw store is
\* reported as a success.
C30_ExitStatusTellsAbort ==
    exit_report # NULL =>
        LET e == Val(exit_report)
        IN  /\ e.exit.status # 0 <=> e.ended = "Failed"
            /\ (e.mode = "full" /\ e.ended = "NoData") => e.exit.status = 0

====
